---------------------------- MODULE Spec2Model ----------------------------
(***************************************************************************)
(* A model of the SEF-based semantic analyser: the Lexicon (lexicon.py),   *)
(* the SEF catalog and its filtering stages (semantic_event_forms.py) and  *)
(* the analysis pipeline (semantic_analyzer.py).                           *)
(*                                                                         *)
(* Words are sequences of one-character strings, so that case folding,     *)
(* punctuation stripping and suffix stripping are computed character by    *)
(* character as the Python code does.  Class tags (N, PERSON, MOD, ...)    *)
(* are strings.                                                            *)
(***************************************************************************)
EXTENDS Integers, Sequences, FiniteSets, TLC

\* ------------------------------------------------------------------------
\* Bounds of the model
\* ------------------------------------------------------------------------

\* Longest enumerated input, in raw tokens (the three end-to-end scenario
\* sentences are added to the inputs whatever their length).
MaxLen == 3

\* ------------------------------------------------------------------------
\* Characters and strings (str.lower, str.isalnum, str.endswith, slicing)
\* ------------------------------------------------------------------------

UpperChars ==
  <<"A", "B", "C", "D", "E", "F", "G", "H", "I", "J", "K", "L", "M",
    "N", "O", "P", "Q", "R", "S", "T", "U", "V", "W", "X", "Y", "Z">>

LowerChars ==
  <<"a", "b", "c", "d", "e", "f", "g", "h", "i", "j", "k", "l", "m",
    "n", "o", "p", "q", "r", "s", "t", "u", "v", "w", "x", "y", "z">>

DigitChars == {"0", "1", "2", "3", "4", "5", "6", "7", "8", "9"}

Range(s) == {s[i] : i \in DOMAIN s}

\* c.lower() for one character
lower_char(c) ==
  IF \E i \in DOMAIN UpperChars : UpperChars[i] = c
  THEN LowerChars[CHOOSE i \in DOMAIN UpperChars : UpperChars[i] = c]
  ELSE c

\* word.lower()
lower(word) == [i \in DOMAIN word |-> lower_char(word[i])]

\* c.isalnum()
isalnum(c) == c \in Range(UpperChars) \cup Range(LowerChars) \cup DigitChars

\* word.endswith(suffix)
endswith(word, suffix) ==
  /\ Len(word) >= Len(suffix)
  /\ SubSeq(word, Len(word) - Len(suffix) + 1, Len(word)) = suffix

\* word[:-k]
drop_last(word, k) ==
  IF Len(word) > k THEN SubSeq(word, 1, Len(word) - k) ELSE <<>>

\* The characters of a relation tag, as the tag is spelled in the catalog
\* (rel_word = sef.relation, and the operand of sef.relation.lower()).
tag_chars(tag) ==
  IF tag = "V" THEN <<"V">> ELSE
  IF tag = "MOD" THEN <<"M", "O", "D">> ELSE
  IF tag = "PREP" THEN <<"P", "R", "E", "P">> ELSE
  IF tag = "HIT" THEN <<"H", "I", "T">> ELSE
  IF tag = "CONSUME" THEN <<"C", "O", "N", "S", "U", "M", "E">> ELSE
  IF tag = "MOVE" THEN <<"M", "O", "V", "E">> ELSE
  IF tag = "SIMILAR" THEN <<"S", "I", "M", "I", "L", "A", "R">> ELSE
  IF tag = "LOC" THEN <<"L", "O", "C">> ELSE
  IF tag = "PART" THEN <<"P", "A", "R", "T">> ELSE
  IF tag = "NAME" THEN <<"N", "A", "M", "E">> ELSE
  IF tag = "TYPE" THEN <<"T", "Y", "P", "E">> ELSE
  IF tag = "EQUIV" THEN <<"E", "Q", "U", "I", "V">> ELSE
  IF tag = "DISCOVER" THEN <<"D", "I", "S", "C", "O", "V", "E", "R">> ELSE
  IF tag = "BOYCOTT" THEN <<"B", "O", "Y", "C", "O", "T", "T">> ELSE
  IF tag = "LEARN" THEN <<"L", "E", "A", "R", "N">> ELSE
  IF tag = "CREATE" THEN <<"C", "R", "E", "A", "T", "E">> ELSE
  IF tag = "COMMUNICATE" THEN <<"C", "O", "M", "M", "U", "N", "I", "C", "A", "T", "E">> ELSE
  IF tag = "TEACH" THEN <<"T", "E", "A", "C", "H">> ELSE
  IF tag = "ARRIVE" THEN <<"A", "R", "R", "I", "V", "E">> ELSE
  IF tag = "TRAVEL" THEN <<"T", "R", "A", "V", "E", "L">> ELSE
  IF tag = "LABOR" THEN <<"L", "A", "B", "O", "R">> ELSE
  IF tag = "ENJOY" THEN <<"E", "N", "J", "O", "Y">> ELSE
  IF tag = "DO" THEN <<"D", "O">> ELSE
  IF tag = "BE" THEN <<"B", "E">> ELSE
  IF tag = "USE" THEN <<"U", "S", "E">> ELSE
  IF tag = "R/P" THEN <<"R", "/", "P">> ELSE
  <<>>

\* Flattening of a sequence of sequences (list.append / list.extend in a
\* loop), split in halves to keep the evaluation shallow
RECURSIVE concat(_)
concat(ss) ==
  IF Len(ss) = 0 THEN <<>>
  ELSE IF Len(ss) = 1 THEN ss[1]
  ELSE LET mid == Len(ss) \div 2
       IN  concat(SubSeq(ss, 1, mid)) \o concat(SubSeq(ss, mid + 1, Len(ss)))

\* ------------------------------------------------------------------------
\* Lexicon (lexicon.py)
\* ------------------------------------------------------------------------

\* WordSense.__init__
WordSense(word, sense_num, syntactic_class, features, semantic_classes) ==
  [word |-> word, sense_num |-> sense_num, syntactic_class |-> syntactic_class,
   features |-> features, semantic_classes |-> semantic_classes]

\* WordSense.matches_class
matches_class(sense, word_class) ==
  \/ word_class = sense.syntactic_class
  \/ word_class \in Range(sense.semantic_classes)

\* A variant of add_sense with the slip of skipping a sense the word
\* already has
add_sense_dedup(ent, word, sense_num, syn_class, features, sem_classes) ==
  LET word_lower == lower(word)
      sense == WordSense(word_lower, sense_num, syn_class, features, sem_classes)
  IN  IF word_lower \in DOMAIN ent
      THEN IF sense \in Range(ent[word_lower]) THEN ent
           ELSE [ent EXCEPT ![word_lower] = Append(@, sense)]
      ELSE ent @@ (word_lower :> <<sense>>)

\* Lexicon.add_sense: append, never deduplicate
add_sense(ent, word, sense_num, syn_class, features, sem_classes) ==
  LET word_lower == lower(word)
      sense == WordSense(word_lower, sense_num, syn_class, features, sem_classes)
  IN  IF word_lower \in DOMAIN ent
      THEN [ent EXCEPT ![word_lower] = Append(@, sense)]
      ELSE ent @@ (word_lower :> <<sense>>)

\* A variant of lookup with the slip of not lower-casing the word
lookup_case_sensitive(ent, word) ==
  IF word \in DOMAIN ent THEN ent[word] ELSE <<>>

\* Lexicon.lookup
lookup(ent, word) ==
  IF lower(word) \in DOMAIN ent THEN ent[lower(word)] ELSE <<>>

\* A variant of add_generic_sense with the slip of numbering the generic
\* sense after the word's last sense number instead of its sense count
add_generic_sense_after_last(ent, word) ==
  LET w == lower(word)
      senses == IF w \in DOMAIN ent THEN ent[w] ELSE <<>>
      sense_num == IF senses = <<>> THEN 1 ELSE senses[Len(senses)].sense_num + 1
  IN  add_sense(ent, w, sense_num, "N", <<>>, <<"OBJECT">>)

\* Lexicon.add_generic_sense(word, persist=False): the mapping after the call
\* (the call returns lookup of the word in that mapping)
add_generic_sense(ent, word) ==
  LET w == lower(word)
      senses == IF w \in DOMAIN ent THEN ent[w] ELSE <<>>
      sense_num == Len(senses) + 1
  IN  add_sense(ent, w, sense_num, "N", <<>>, <<"OBJECT">>)

\* The add_sense calls of Lexicon._initialize_lexicon, in source order
SeedVocabulary ==
  <<
    [word |-> <<"r", "e", "a", "d">>, sense_num |-> 1, syn_class |-> "V",
     features |-> <<"PRES">>, sem_classes |-> <<"COMMUNICATE", "LEARN">>],
    [word |-> <<"r", "e", "a", "d", "s">>, sense_num |-> 1, syn_class |-> "V",
     features |-> <<"PRES", "SING">>, sem_classes |-> <<"COMMUNICATE", "LEARN">>],
    [word |-> <<"t", "e", "a", "c", "h">>, sense_num |-> 1, syn_class |-> "V",
     features |-> <<"PRES">>, sem_classes |-> <<"TEACH", "COMMUNICATE">>],
    [word |-> <<"t", "e", "a", "c", "h", "e", "s">>, sense_num |-> 1, syn_class |-> "V",
     features |-> <<"PRES", "SING">>, sem_classes |-> <<"TEACH", "COMMUNICATE">>],
    [word |-> <<"w", "a", "l", "k">>, sense_num |-> 1, syn_class |-> "V",
     features |-> <<"PRES">>, sem_classes |-> <<"MOVE", "TRAVEL">>],
    [word |-> <<"w", "a", "l", "k", "s">>, sense_num |-> 1, syn_class |-> "V",
     features |-> <<"PRES", "SING">>, sem_classes |-> <<"MOVE", "TRAVEL">>],
    [word |-> <<"w", "o", "r", "k">>, sense_num |-> 1, syn_class |-> "V",
     features |-> <<"PRES">>, sem_classes |-> <<"LABOR", "DO">>],
    [word |-> <<"w", "o", "r", "k", "s">>, sense_num |-> 1, syn_class |-> "V",
     features |-> <<"PRES", "SING">>, sem_classes |-> <<"LABOR", "DO">>],
    [word |-> <<"s", "t", "u", "d", "y">>, sense_num |-> 1, syn_class |-> "V",
     features |-> <<"PRES">>, sem_classes |-> <<"LEARN", "DO">>],
    [word |-> <<"s", "t", "u", "d", "i", "e", "s">>, sense_num |-> 1, syn_class |-> "V",
     features |-> <<"PRES", "SING">>, sem_classes |-> <<"LEARN", "DO">>],
    [word |-> <<"m", "o", "v", "e">>, sense_num |-> 1, syn_class |-> "V",
     features |-> <<"PRES">>, sem_classes |-> <<"MOVE">>],
    [word |-> <<"m", "o", "v", "e", "s">>, sense_num |-> 1, syn_class |-> "V",
     features |-> <<"PRES", "SING">>, sem_classes |-> <<"MOVE">>],
    [word |-> <<"i", "s">>, sense_num |-> 1, syn_class |-> "V",
     features |-> <<"PRES", "SING">>, sem_classes |-> <<"BE", "EQUIV">>],
    [word |-> <<"a", "r", "e">>, sense_num |-> 1, syn_class |-> "V",
     features |-> <<"PRES", "PL">>, sem_classes |-> <<"BE", "EQUIV">>],
    [word |-> <<"p", "i", "t", "c", "h", "e", "r">>, sense_num |-> 1, syn_class |-> "N",
     features |-> <<"SING">>, sem_classes |-> <<"PERSON", "ATHLETE">>],
    [word |-> <<"p", "i", "t", "c", "h", "e", "r">>, sense_num |-> 2, syn_class |-> "N",
     features |-> <<"SING">>, sem_classes |-> <<"CONTAINER", "OBJECT">>],
    [word |-> <<"p", "e", "r", "s", "o", "n">>, sense_num |-> 1, syn_class |-> "N",
     features |-> <<"SING">>, sem_classes |-> <<"PERSON">>],
    [word |-> <<"p", "e", "o", "p", "l", "e">>, sense_num |-> 1, syn_class |-> "N",
     features |-> <<"PL">>, sem_classes |-> <<"PERSON">>],
    [word |-> <<"s", "t", "u", "d", "e", "n", "t">>, sense_num |-> 1, syn_class |-> "N",
     features |-> <<"SING">>, sem_classes |-> <<"PERSON", "LEARNER">>],
    [word |-> <<"s", "t", "u", "d", "e", "n", "t", "s">>, sense_num |-> 1, syn_class |-> "N",
     features |-> <<"PL">>, sem_classes |-> <<"PERSON", "LEARNER">>],
    [word |-> <<"t", "e", "a", "c", "h", "e", "r">>, sense_num |-> 1, syn_class |-> "N",
     features |-> <<"SING">>, sem_classes |-> <<"PERSON", "EDUCATOR">>],
    [word |-> <<"t", "e", "a", "c", "h", "e", "r", "s">>, sense_num |-> 1, syn_class |-> "N",
     features |-> <<"PL">>, sem_classes |-> <<"PERSON", "EDUCATOR">>],
    [word |-> <<"d", "o", "c", "t", "o", "r">>, sense_num |-> 1, syn_class |-> "N",
     features |-> <<"SING">>, sem_classes |-> <<"PERSON", "PROFESSIONAL">>],
    [word |-> <<"c", "h", "i", "l", "d">>, sense_num |-> 1, syn_class |-> "N",
     features |-> <<"SING">>, sem_classes |-> <<"PERSON", "YOUNG">>],
    [word |-> <<"c", "h", "i", "l", "d", "r", "e", "n">>, sense_num |-> 1, syn_class |-> "N",
     features |-> <<"PL">>, sem_classes |-> <<"PERSON", "YOUNG">>],
    [word |-> <<"p", "a", "r", "e", "n", "t">>, sense_num |-> 1, syn_class |-> "N",
     features |-> <<"SING">>, sem_classes |-> <<"PERSON", "FAMILY">>],
    [word |-> <<"p", "a", "r", "e", "n", "t", "s">>, sense_num |-> 1, syn_class |-> "N",
     features |-> <<"PL">>, sem_classes |-> <<"PERSON", "FAMILY">>],
    [word |-> <<"f", "r", "i", "e", "n", "d">>, sense_num |-> 1, syn_class |-> "N",
     features |-> <<"SING">>, sem_classes |-> <<"PERSON", "RELATION">>],
    [word |-> <<"f", "r", "i", "e", "n", "d", "s">>, sense_num |-> 1, syn_class |-> "N",
     features |-> <<"PL">>, sem_classes |-> <<"PERSON", "RELATION">>],
    [word |-> <<"b", "a", "t", "t", "e", "r">>, sense_num |-> 1, syn_class |-> "N",
     features |-> <<"SING">>, sem_classes |-> <<"PERSON", "ATHLETE">>],
    [word |-> <<"b", "a", "t", "t", "e", "r">>, sense_num |-> 2, syn_class |-> "N",
     features |-> <<"SING">>, sem_classes |-> <<"LIQUID", "SUBSTANCE">>],
    [word |-> <<"u", "m", "p", "i", "r", "e">>, sense_num |-> 1, syn_class |-> "N",
     features |-> <<"SING">>, sem_classes |-> <<"PERSON", "OFFICIAL">>],
    [word |-> <<"b", "o", "o", "k">>, sense_num |-> 1, syn_class |-> "N",
     features |-> <<"SING">>, sem_classes |-> <<"OBJECT", "READABLE">>],
    [word |-> <<"b", "o", "o", "k", "s">>, sense_num |-> 1, syn_class |-> "N",
     features |-> <<"PL">>, sem_classes |-> <<"OBJECT", "READABLE">>],
    [word |-> <<"t", "a", "b", "l", "e">>, sense_num |-> 1, syn_class |-> "N",
     features |-> <<"SING">>, sem_classes |-> <<"OBJECT", "FURNITURE">>],
    [word |-> <<"c", "h", "a", "i", "r">>, sense_num |-> 1, syn_class |-> "N",
     features |-> <<"SING">>, sem_classes |-> <<"OBJECT", "FURNITURE">>],
    [word |-> <<"c", "o", "m", "p", "u", "t", "e", "r">>, sense_num |-> 1, syn_class |-> "N",
     features |-> <<"SING">>, sem_classes |-> <<"OBJECT", "DEVICE">>],
    [word |-> <<"p", "h", "o", "n", "e">>, sense_num |-> 1, syn_class |-> "N",
     features |-> <<"SING">>, sem_classes |-> <<"OBJECT", "DEVICE">>],
    [word |-> <<"c", "a", "r">>, sense_num |-> 1, syn_class |-> "N",
     features |-> <<"SING">>, sem_classes |-> <<"OBJECT", "VEHICLE">>],
    [word |-> <<"c", "a", "r", "s">>, sense_num |-> 1, syn_class |-> "N",
     features |-> <<"PL">>, sem_classes |-> <<"OBJECT", "VEHICLE">>],
    [word |-> <<"m", "a", "t", "h", "e", "m", "a", "t", "i", "c", "s">>, sense_num |-> 1, syn_class |-> "N",
     features |-> <<"SING">>, sem_classes |-> <<"SUBJECT", "ACADEMIC">>],
    [word |-> <<"m", "a", "t", "h", "e", "m", "a", "t", "i", "c", "s">>, sense_num |-> 1, syn_class |-> "N",
     features |-> <<"SING">>, sem_classes |-> <<"SUBJECT", "READABLE">>],
    [word |-> <<"h", "o", "u", "s", "e">>, sense_num |-> 1, syn_class |-> "N",
     features |-> <<"SING">>, sem_classes |-> <<"PLACE", "BUILDING">>],
    [word |-> <<"s", "c", "h", "o", "o", "l">>, sense_num |-> 1, syn_class |-> "N",
     features |-> <<"SING">>, sem_classes |-> <<"PLACE", "BUILDING", "EDUCATION">>],
    [word |-> <<"o", "f", "f", "i", "c", "e">>, sense_num |-> 1, syn_class |-> "N",
     features |-> <<"SING">>, sem_classes |-> <<"PLACE", "BUILDING", "WORK">>],
    [word |-> <<"p", "a", "r", "k">>, sense_num |-> 1, syn_class |-> "N",
     features |-> <<"SING">>, sem_classes |-> <<"PLACE", "OUTDOOR", "RECREATION">>],
    [word |-> <<"c", "i", "t", "y">>, sense_num |-> 1, syn_class |-> "N",
     features |-> <<"SING">>, sem_classes |-> <<"PLACE", "URBAN">>],
    [word |-> <<"c", "o", "u", "n", "t", "r", "y">>, sense_num |-> 1, syn_class |-> "N",
     features |-> <<"SING">>, sem_classes |-> <<"PLACE", "NATION">>],
    [word |-> <<"c", "o", "n", "d", "o", "r">>, sense_num |-> 1, syn_class |-> "N",
     features |-> <<"SING">>, sem_classes |-> <<"BIRD", "ANIMAL">>],
    [word |-> <<"l", "a", "n", "d", "b", "i", "r", "d">>, sense_num |-> 1, syn_class |-> "N",
     features |-> <<"SING">>, sem_classes |-> <<"BIRD", "ANIMAL">>],
    [word |-> <<"c", "o", "n", "t", "i", "n", "e", "n", "t">>, sense_num |-> 1, syn_class |-> "N",
     features |-> <<"SING">>, sem_classes |-> <<"PLACE", "LANDMASS">>],
    [word |-> <<"m", "a", "n">>, sense_num |-> 1, syn_class |-> "N",
     features |-> <<"SING">>, sem_classes |-> <<"PERSON", "MALE", "MAMMAL">>],
    [word |-> <<"m", "e", "n">>, sense_num |-> 1, syn_class |-> "N",
     features |-> <<"PL">>, sem_classes |-> <<"PERSON", "MALE", "MAMMAL">>],
    [word |-> <<"f", "i", "s", "h">>, sense_num |-> 1, syn_class |-> "N",
     features |-> <<"SING">>, sem_classes |-> <<"ANIMAL", "AQUATIC">>],
    [word |-> <<"f", "i", "s", "h">>, sense_num |-> 2, syn_class |-> "N",
     features |-> <<"PL">>, sem_classes |-> <<"ANIMAL", "AQUATIC">>],
    [word |-> <<"f", "i", "s", "h">>, sense_num |-> 3, syn_class |-> "N",
     features |-> <<"SING">>, sem_classes |-> <<"FOOD">>],
    [word |-> <<"t", "i", "m", "e">>, sense_num |-> 1, syn_class |-> "N",
     features |-> <<"SING">>, sem_classes |-> <<"DURATION", "CONCEPT">>],
    [word |-> <<"f", "l", "i", "e", "s">>, sense_num |-> 1, syn_class |-> "N",
     features |-> <<"PL">>, sem_classes |-> <<"INSECT", "ANIMAL">>],
    [word |-> <<"a", "r", "r", "o", "w">>, sense_num |-> 1, syn_class |-> "N",
     features |-> <<"SING">>, sem_classes |-> <<"WEAPON", "OBJECT">>],
    [word |-> <<"a", "r", "r", "o", "w", "s">>, sense_num |-> 1, syn_class |-> "N",
     features |-> <<"PL">>, sem_classes |-> <<"WEAPON", "OBJECT">>],
    [word |-> <<"s", "t", "r", "i", "k", "e">>, sense_num |-> 1, syn_class |-> "V",
     features |-> <<"PL", "PAST">>, sem_classes |-> <<"DISCOVER", "FIND">>],
    [word |-> <<"s", "t", "r", "i", "k", "e">>, sense_num |-> 2, syn_class |-> "V",
     features |-> <<"PL", "PAST">>, sem_classes |-> <<"BOYCOTT", "REFUSE">>],
    [word |-> <<"s", "t", "r", "i", "k", "e">>, sense_num |-> 3, syn_class |-> "V",
     features |-> <<"PL", "PAST">>, sem_classes |-> <<"HIT", "TOUCH">>],
    [word |-> <<"s", "t", "r", "u", "c", "k">>, sense_num |-> 1, syn_class |-> "V",
     features |-> <<"SING", "PAST">>, sem_classes |-> <<"DISCOVER", "FIND">>],
    [word |-> <<"s", "t", "r", "u", "c", "k">>, sense_num |-> 2, syn_class |-> "V",
     features |-> <<"SING", "PAST">>, sem_classes |-> <<"BOYCOTT", "REFUSE">>],
    [word |-> <<"s", "t", "r", "u", "c", "k">>, sense_num |-> 3, syn_class |-> "V",
     features |-> <<"SING", "PAST">>, sem_classes |-> <<"HIT", "TOUCH">>],
    [word |-> <<"e", "a", "t">>, sense_num |-> 1, syn_class |-> "V",
     features |-> <<"PL", "PR">>, sem_classes |-> <<"CONSUME", "INGEST">>],
    [word |-> <<"a", "t", "e">>, sense_num |-> 1, syn_class |-> "V",
     features |-> <<"SING", "PAST">>, sem_classes |-> <<"CONSUME", "INGEST">>],
    [word |-> <<"f", "l", "y">>, sense_num |-> 1, syn_class |-> "V",
     features |-> <<"PL", "PR">>, sem_classes |-> <<"MOVE", "TRAVEL">>],
    [word |-> <<"f", "l", "i", "e", "s">>, sense_num |-> 2, syn_class |-> "V",
     features |-> <<"SING", "PR">>, sem_classes |-> <<"MOVE", "TRAVEL">>],
    [word |-> <<"l", "i", "k", "e">>, sense_num |-> 1, syn_class |-> "V",
     features |-> <<"PL", "PR">>, sem_classes |-> <<"SIMILAR", "RESEMBLE">>],
    [word |-> <<"l", "i", "k", "e">>, sense_num |-> 2, syn_class |-> "PREP",
     features |-> <<>>, sem_classes |-> <<"SIMILAR">>],
    [word |-> <<"i", "s">>, sense_num |-> 1, syn_class |-> "V",
     features |-> <<"SING", "PR">>, sem_classes |-> <<"BE", "EQUIV">>],
    [word |-> <<"a", "r", "e">>, sense_num |-> 1, syn_class |-> "V",
     features |-> <<"PL", "PR">>, sem_classes |-> <<"BE", "EQUIV">>],
    [word |-> <<"w", "a", "s">>, sense_num |-> 1, syn_class |-> "V",
     features |-> <<"SING", "PAST">>, sem_classes |-> <<"BE", "EQUIV">>],
    [word |-> <<"w", "e", "r", "e">>, sense_num |-> 1, syn_class |-> "V",
     features |-> <<"PL", "PAST">>, sem_classes |-> <<"BE", "EQUIV">>],
    [word |-> <<"r", "e", "a", "d">>, sense_num |-> 1, syn_class |-> "V",
     features |-> <<"PL", "PR">>, sem_classes |-> <<"CONSUME", "LEARN">>],
    [word |-> <<"r", "e", "a", "d", "s">>, sense_num |-> 1, syn_class |-> "V",
     features |-> <<"SING", "PR">>, sem_classes |-> <<"CONSUME", "LEARN">>],
    [word |-> <<"w", "r", "i", "t", "e">>, sense_num |-> 1, syn_class |-> "V",
     features |-> <<"PL", "PR">>, sem_classes |-> <<"CREATE", "COMMUNICATE">>],
    [word |-> <<"w", "r", "i", "t", "e", "s">>, sense_num |-> 1, syn_class |-> "V",
     features |-> <<"SING", "PR">>, sem_classes |-> <<"CREATE", "COMMUNICATE">>],
    [word |-> <<"s", "t", "u", "d", "y">>, sense_num |-> 1, syn_class |-> "V",
     features |-> <<"PL", "PR">>, sem_classes |-> <<"LEARN", "THINK">>],
    [word |-> <<"s", "t", "u", "d", "i", "e", "s">>, sense_num |-> 1, syn_class |-> "V",
     features |-> <<"SING", "PR">>, sem_classes |-> <<"LEARN", "THINK">>],
    [word |-> <<"w", "o", "r", "k">>, sense_num |-> 1, syn_class |-> "V",
     features |-> <<"PL", "PR">>, sem_classes |-> <<"DO", "LABOR">>],
    [word |-> <<"w", "o", "r", "k", "s">>, sense_num |-> 1, syn_class |-> "V",
     features |-> <<"SING", "PR">>, sem_classes |-> <<"DO", "LABOR">>],
    [word |-> <<"p", "l", "a", "y">>, sense_num |-> 1, syn_class |-> "V",
     features |-> <<"PL", "PR">>, sem_classes |-> <<"DO", "ENJOY">>],
    [word |-> <<"p", "l", "a", "y", "s">>, sense_num |-> 1, syn_class |-> "V",
     features |-> <<"SING", "PR">>, sem_classes |-> <<"DO", "ENJOY">>],
    [word |-> <<"g", "o">>, sense_num |-> 1, syn_class |-> "V",
     features |-> <<"PL", "PR">>, sem_classes |-> <<"MOVE", "TRAVEL">>],
    [word |-> <<"g", "o", "e", "s">>, sense_num |-> 1, syn_class |-> "V",
     features |-> <<"SING", "PR">>, sem_classes |-> <<"MOVE", "TRAVEL">>],
    [word |-> <<"c", "o", "m", "e">>, sense_num |-> 1, syn_class |-> "V",
     features |-> <<"PL", "PR">>, sem_classes |-> <<"MOVE", "ARRIVE">>],
    [word |-> <<"c", "o", "m", "e", "s">>, sense_num |-> 1, syn_class |-> "V",
     features |-> <<"SING", "PR">>, sem_classes |-> <<"MOVE", "ARRIVE">>],
    [word |-> <<"w", "a", "l", "k">>, sense_num |-> 1, syn_class |-> "V",
     features |-> <<"PL", "PR">>, sem_classes |-> <<"MOVE", "SELF">>],
    [word |-> <<"w", "a", "l", "k", "s">>, sense_num |-> 1, syn_class |-> "V",
     features |-> <<"SING", "PR">>, sem_classes |-> <<"MOVE", "SELF">>],
    [word |-> <<"r", "u", "n">>, sense_num |-> 1, syn_class |-> "V",
     features |-> <<"PL", "PR">>, sem_classes |-> <<"MOVE", "FAST">>],
    [word |-> <<"r", "u", "n", "s">>, sense_num |-> 1, syn_class |-> "V",
     features |-> <<"SING", "PR">>, sem_classes |-> <<"MOVE", "FAST">>],
    [word |-> <<"a", "n", "g", "r", "y">>, sense_num |-> 1, syn_class |-> "ADJ",
     features |-> <<>>, sem_classes |-> <<"EMOTION", "FEELING">>],
    [word |-> <<"h", "a", "p", "p", "y">>, sense_num |-> 1, syn_class |-> "ADJ",
     features |-> <<>>, sem_classes |-> <<"EMOTION", "FEELING">>],
    [word |-> <<"s", "a", "d">>, sense_num |-> 1, syn_class |-> "ADJ",
     features |-> <<>>, sem_classes |-> <<"EMOTION", "FEELING">>],
    [word |-> <<"e", "x", "c", "i", "t", "e", "d">>, sense_num |-> 1, syn_class |-> "ADJ",
     features |-> <<>>, sem_classes |-> <<"EMOTION", "FEELING">>],
    [word |-> <<"c", "a", "r", "e", "l", "e", "s", "s">>, sense_num |-> 1, syn_class |-> "ADJ",
     features |-> <<>>, sem_classes |-> <<"ATTITUDE", "QUALITY">>],
    [word |-> <<"c", "a", "r", "e", "f", "u", "l">>, sense_num |-> 1, syn_class |-> "ADJ",
     features |-> <<>>, sem_classes |-> <<"ATTITUDE", "QUALITY">>],
    [word |-> <<"s", "m", "a", "r", "t">>, sense_num |-> 1, syn_class |-> "ADJ",
     features |-> <<>>, sem_classes |-> <<"ATTITUDE", "QUALITY">>],
    [word |-> <<"c", "l", "e", "v", "e", "r">>, sense_num |-> 1, syn_class |-> "ADJ",
     features |-> <<>>, sem_classes |-> <<"ATTITUDE", "QUALITY">>],
    [word |-> <<"o", "l", "d">>, sense_num |-> 1, syn_class |-> "ADJ",
     features |-> <<>>, sem_classes |-> <<"AGE", "QUALITY">>],
    [word |-> <<"y", "o", "u", "n", "g">>, sense_num |-> 1, syn_class |-> "ADJ",
     features |-> <<>>, sem_classes |-> <<"AGE", "QUALITY">>],
    [word |-> <<"n", "e", "w">>, sense_num |-> 1, syn_class |-> "ADJ",
     features |-> <<>>, sem_classes |-> <<"AGE", "QUALITY">>],
    [word |-> <<"b", "i", "g">>, sense_num |-> 1, syn_class |-> "ADJ",
     features |-> <<>>, sem_classes |-> <<"SIZE", "QUALITY">>],
    [word |-> <<"s", "m", "a", "l", "l">>, sense_num |-> 1, syn_class |-> "ADJ",
     features |-> <<>>, sem_classes |-> <<"SIZE", "QUALITY">>],
    [word |-> <<"t", "a", "l", "l">>, sense_num |-> 1, syn_class |-> "ADJ",
     features |-> <<>>, sem_classes |-> <<"SIZE", "QUALITY">>],
    [word |-> <<"s", "h", "o", "r", "t">>, sense_num |-> 1, syn_class |-> "ADJ",
     features |-> <<>>, sem_classes |-> <<"SIZE", "QUALITY">>],
    [word |-> <<"l", "a", "r", "g", "e", "s", "t">>, sense_num |-> 1, syn_class |-> "ADJ",
     features |-> <<>>, sem_classes |-> <<"SIZE", "SUPERLATIVE">>],
    [word |-> <<"s", "m", "a", "l", "l", "e", "s", "t">>, sense_num |-> 1, syn_class |-> "ADJ",
     features |-> <<>>, sem_classes |-> <<"SIZE", "SUPERLATIVE">>],
    [word |-> <<"b", "e", "a", "u", "t", "i", "f", "u", "l">>, sense_num |-> 1, syn_class |-> "ADJ",
     features |-> <<>>, sem_classes |-> <<"APPEARANCE", "QUALITY">>],
    [word |-> <<"r", "e", "d">>, sense_num |-> 1, syn_class |-> "ADJ",
     features |-> <<>>, sem_classes |-> <<"COLOR", "QUALITY">>],
    [word |-> <<"b", "l", "u", "e">>, sense_num |-> 1, syn_class |-> "ADJ",
     features |-> <<>>, sem_classes |-> <<"COLOR", "QUALITY">>],
    [word |-> <<"g", "r", "e", "e", "n">>, sense_num |-> 1, syn_class |-> "ADJ",
     features |-> <<>>, sem_classes |-> <<"COLOR", "QUALITY">>],
    [word |-> <<"y", "e", "l", "l", "o", "w">>, sense_num |-> 1, syn_class |-> "ADJ",
     features |-> <<>>, sem_classes |-> <<"COLOR", "QUALITY">>],
    [word |-> <<"v", "e", "r", "y">>, sense_num |-> 1, syn_class |-> "ADV",
     features |-> <<>>, sem_classes |-> <<"INTENSIFIER">>],
    [word |-> <<"r", "e", "a", "l", "l", "y">>, sense_num |-> 1, syn_class |-> "ADV",
     features |-> <<>>, sem_classes |-> <<"INTENSIFIER">>],
    [word |-> <<"q", "u", "i", "c", "k", "l", "y">>, sense_num |-> 1, syn_class |-> "ADV",
     features |-> <<>>, sem_classes |-> <<"SPEED", "MANNER", "FAST">>],
    [word |-> <<"s", "l", "o", "w", "l", "y">>, sense_num |-> 1, syn_class |-> "ADV",
     features |-> <<>>, sem_classes |-> <<"SPEED", "MANNER", "SLOW">>],
    [word |-> <<"w", "e", "l", "l">>, sense_num |-> 1, syn_class |-> "ADV",
     features |-> <<>>, sem_classes |-> <<"QUALITY", "MANNER", "GOOD">>],
    [word |-> <<"b", "a", "d", "l", "y">>, sense_num |-> 1, syn_class |-> "ADV",
     features |-> <<>>, sem_classes |-> <<"QUALITY", "MANNER", "BAD">>],
    [word |-> <<"t", "h", "e">>, sense_num |-> 1, syn_class |-> "ART",
     features |-> <<"DEF">>, sem_classes |-> <<"DEFINITE">>],
    [word |-> <<"a">>, sense_num |-> 1, syn_class |-> "ART",
     features |-> <<"INDEF">>, sem_classes |-> <<"INDEFINITE">>],
    [word |-> <<"a", "n">>, sense_num |-> 1, syn_class |-> "ART",
     features |-> <<"INDEF">>, sem_classes |-> <<"INDEFINITE">>],
    [word |-> <<"o", "f">>, sense_num |-> 1, syn_class |-> "PREP",
     features |-> <<>>, sem_classes |-> <<"POSSESSION", "RELATION">>],
    [word |-> <<"o", "n">>, sense_num |-> 1, syn_class |-> "PREP",
     features |-> <<>>, sem_classes |-> <<"LOCATION", "POSITION">>],
    [word |-> <<"i", "n">>, sense_num |-> 1, syn_class |-> "PREP",
     features |-> <<>>, sem_classes |-> <<"LOCATION", "POSITION">>],
    [word |-> <<"a", "t">>, sense_num |-> 1, syn_class |-> "PREP",
     features |-> <<>>, sem_classes |-> <<"LOCATION", "POSITION">>],
    [word |-> <<"t", "o">>, sense_num |-> 1, syn_class |-> "PREP",
     features |-> <<>>, sem_classes |-> <<"DIRECTION", "GOAL">>],
    [word |-> <<"w", "h", "o">>, sense_num |-> 1, syn_class |-> "R/P",
     features |-> <<>>, sem_classes |-> <<"PERSON">>],
    [word |-> <<"w", "h", "i", "c", "h">>, sense_num |-> 1, syn_class |-> "R/P",
     features |-> <<>>, sem_classes |-> <<"THING">>],
    [word |-> <<"t", "h", "a", "t">>, sense_num |-> 1, syn_class |-> "R/P",
     features |-> <<>>, sem_classes |-> <<"ANY">>],
    [word |-> <<"C", "a", "l", "i", "f", "o", "r", "n", "i", "a">>, sense_num |-> 1, syn_class |-> "N",
     features |-> <<"SING", "PROPER">>, sem_classes |-> <<"PLACE", "STATE">>],
    [word |-> <<"N", "o", "r", "t", "h">>, sense_num |-> 1, syn_class |-> "ADJ",
     features |-> <<>>, sem_classes |-> <<"DIRECTION">>],
    [word |-> <<"A", "m", "e", "r", "i", "c", "a">>, sense_num |-> 1, syn_class |-> "N",
     features |-> <<"SING", "PROPER">>, sem_classes |-> <<"PLACE", "CONTINENT">>],
    [word |-> <<"c", "a", "l", "l", "e", "d">>, sense_num |-> 1, syn_class |-> "V",
     features |-> <<"SING", "PAST">>, sem_classes |-> <<"NAME", "DESIGNATE">>],
    [word |-> <<"s", "h", "e">>, sense_num |-> 1, syn_class |-> "PRO",
     features |-> <<"SING", "FEM">>, sem_classes |-> <<"PERSON">>],
    [word |-> <<"h", "e">>, sense_num |-> 1, syn_class |-> "PRO",
     features |-> <<"SING", "MASC">>, sem_classes |-> <<"PERSON">>],
    [word |-> <<"i">>, sense_num |-> 1, syn_class |-> "PRO",
     features |-> <<"SING">>, sem_classes |-> <<"PERSON">>],
    [word |-> <<"y", "o", "u">>, sense_num |-> 1, syn_class |-> "PRO",
     features |-> <<>>, sem_classes |-> <<"PERSON">>],
    [word |-> <<"w", "e">>, sense_num |-> 1, syn_class |-> "PRO",
     features |-> <<"PL">>, sem_classes |-> <<"PERSON">>],
    [word |-> <<"t", "h", "e", "y">>, sense_num |-> 1, syn_class |-> "PRO",
     features |-> <<"PL">>, sem_classes |-> <<"PERSON">>],
    [word |-> <<"a", "m">>, sense_num |-> 1, syn_class |-> "V",
     features |-> <<"SING", "PR">>, sem_classes |-> <<"BE", "EQUIV">>],
    [word |-> <<"h", "a", "v", "e">>, sense_num |-> 1, syn_class |-> "V",
     features |-> <<"PR">>, sem_classes |-> <<"HAVE">>],
    [word |-> <<"h", "a", "s">>, sense_num |-> 1, syn_class |-> "V",
     features |-> <<"SING", "PR">>, sem_classes |-> <<"HAVE">>],
    [word |-> <<"d", "o">>, sense_num |-> 1, syn_class |-> "V",
     features |-> <<"PR">>, sem_classes |-> <<"DO">>],
    [word |-> <<"d", "o", "e", "s">>, sense_num |-> 1, syn_class |-> "V",
     features |-> <<"SING", "PR">>, sem_classes |-> <<"DO">>],
    [word |-> <<"h", "e", "l", "l", "o">>, sense_num |-> 1, syn_class |-> "N",
     features |-> <<>>, sem_classes |-> <<"OBJECT">>],
    [word |-> <<"w", "o", "r", "l", "d">>, sense_num |-> 1, syn_class |-> "N",
     features |-> <<>>, sem_classes |-> <<"PLACE", "OBJECT">>],
    [word |-> <<"b", "e", "a", "u", "t", "i", "f", "u", "l">>, sense_num |-> 1, syn_class |-> "ADJ",
     features |-> <<>>, sem_classes |-> <<"APPEARANCE", "QUALITY", "POSITIVE">>]
  >>

\* A variant of SeedLexicon with the slip of add_sense replacing a word's
\* list instead of appending to it: each word keeps the sense of its last call
SeedLexicon_last_sense ==
  LET words == {lower(SeedVocabulary[k].word) : k \in DOMAIN SeedVocabulary}
  IN  [w \in words |->
         LET ForWord(s) == lower(s.word) = w
             calls == SelectSeq(SeedVocabulary, ForWord)
             last == calls[Len(calls)]
         IN  <<WordSense(w, last.sense_num, last.syn_class,
                         last.features, last.sem_classes)>>]

\* Lexicon._initialize_lexicon on the empty mapping: what the add_sense calls
\* build, each word (lower-cased) mapped to the senses of its calls in source
\* order.  Lexicon.__init__ with no custom_lexicon.json present stops here.
SeedLexicon ==
  LET words == {lower(SeedVocabulary[k].word) : k \in DOMAIN SeedVocabulary}
  IN  [w \in words |->
         LET ForWord(s) == lower(s.word) = w
             calls == SelectSeq(SeedVocabulary, ForWord)
         IN  [k \in DOMAIN calls |->
                WordSense(w, calls[k].sense_num, calls[k].syn_class,
                          calls[k].features, calls[k].sem_classes)]]

\* custom_lexicon.json next to the module.  kind is "absent" (no such
\* file), "garbage" (a file whose content json.load rejects or that is not
\* a JSON object) or "data" (a JSON object); data lists the object's members
\* in file order, each a word with its list of items.  An item is a JSON
\* object (is_dict, with the keys it has in d) or any other JSON value.
\* json.dump and json.load carry numbers, strings and lists over unchanged,
\* so a written item is read back as the same keys and values.
StoreAbsent == [kind |-> "absent", data |-> <<>>]

StoreGarbage == [kind |-> "garbage", data |-> <<>>]

StoreData(data) == [kind |-> "data", data |-> data]

\* s.get(key, default) on an item that is a JSON object
get(s, key, default) == IF key \in DOMAIN s.d THEN s.d[key] ELSE default

\* The item _save_custom_entry appends (lines 295-300)
StoredItem(sense_num, syn_class, features, sem_classes) ==
  [is_dict |-> TRUE,
   d |-> [sense_num |-> sense_num, syn_class |-> syn_class,
          features |-> features, sem_classes |-> sem_classes]]

\* The (word, item) pairs of the loops of _load_custom_lexicon, in order
store_pairs(data) ==
  concat([k \in DOMAIN data |->
            [j \in DOMAIN data[k].senses |->
               [word |-> data[k].word, item |-> data[k].senses[j]]]])

\* The add_sense calls of _load_custom_lexicon over the pairs (line 281)
RECURSIVE load_pairs(_, _)
load_pairs(ent, pairs) ==
  IF pairs = <<>> THEN ent
  ELSE LET s == Head(pairs).item
       IN  load_pairs(add_sense(ent, Head(pairs).word,
                                get(s, "sense_num", 1), get(s, "syn_class", "N"),
                                get(s, "features", <<>>),
                                get(s, "sem_classes", <<"OBJECT">>)),
                      Tail(pairs))

\* A variant of load_custom_lexicon with the slip of keeping nothing of a
\* store whose reading stops at an item that is no JSON object
load_custom_lexicon_all_or_nothing(ent, store, readable) ==
  IF store.kind # "data" \/ ~readable THEN ent
  ELSE LET pairs == store_pairs(store.data)
       IN  IF \E k \in DOMAIN pairs : ~pairs[k].item.is_dict THEN ent
           ELSE load_pairs(ent, pairs)

\* Lexicon._load_custom_lexicon: the mapping after the call.  Nothing is
\* read from an absent file; open or json.load raising (readable false, or
\* garbage) is caught before any add_sense; s.get on an item that is no
\* JSON object raises and is caught after the add_sense calls made so far.
load_custom_lexicon(ent, store, readable) ==
  IF store.kind # "data" \/ ~readable THEN ent
  ELSE LET pairs == store_pairs(store.data)
           bad == {k \in DOMAIN pairs : ~pairs[k].item.is_dict}
           stop == IF bad = {} THEN Len(pairs)
                   ELSE (CHOOSE k \in bad : \A j \in bad : k <= j) - 1
       IN  load_pairs(ent, SubSeq(pairs, 1, stop))

\* data[word].append(item) of _save_custom_entry (lines 293-300)
append_item(data, word, item) ==
  IF \E k \in DOMAIN data : data[k].word = word
  THEN [k \in DOMAIN data |->
          IF data[k].word = word
          THEN [data[k] EXCEPT !.senses = Append(@, item)]
          ELSE data[k]]
  ELSE Append(data, [word |-> word, senses |-> <<item>>])

\* What can happen to the file operations of one _save_custom_entry call:
\* all succeed, the read raises, open(..., 'w') raises (the file is left as
\* it was), or json.dump raises after the file was truncated
IOOutcomes == {"ok", "read_error", "open_error", "write_error"}

\* Lexicon._save_custom_entry: the store after the call under outcome io;
\* every exception is caught
save_custom_entry(store, io, word, sense_num, syn_class, features, sem_classes) ==
  LET item == StoredItem(sense_num, syn_class, features, sem_classes)
      failed_read == store.kind = "garbage"
                       \/ (store.kind = "data" /\ io = "read_error")
  IN  IF failed_read THEN store
      ELSE IF io = "open_error" THEN store
      ELSE IF io = "write_error" THEN StoreGarbage
      ELSE StoreData(append_item(store.data, word, item))

\* Lexicon.__init__: the seed vocabulary, then the custom store
new_lexicon(store, readable) == load_custom_lexicon(SeedLexicon, store, readable)

\* ------------------------------------------------------------------------
\* SEF catalog (semantic_event_forms.py)
\* ------------------------------------------------------------------------

\* SEF.__init__
SEF(left, relation, right) == [left |-> left, relation |-> relation, right |-> right]

\* SEFSet._initialize_sefs: the add_sef calls, in source order
CatalogSefs ==
  <<
    [left |-> "N", relation |-> "V", right |-> "N"],
    [left |-> "N", relation |-> "MOD", right |-> "ADJ"],
    [left |-> "N", relation |-> "MOD", right |-> "ART"],
    [left |-> "V", relation |-> "MOD", right |-> "ADV"],
    [left |-> "ADJ", relation |-> "MOD", right |-> "ADV"],
    [left |-> "N", relation |-> "PREP", right |-> "N"],
    [left |-> "V", relation |-> "PREP", right |-> "N"],
    [left |-> "PERSON", relation |-> "MOD", right |-> "EMOTION"],
    [left |-> "PERSON", relation |-> "MOD", right |-> "ATTITUDE"],
    [left |-> "PERSON", relation |-> "HIT", right |-> "PERSON"],
    [left |-> "PERSON", relation |-> "MOD", right |-> "AGE"],
    [left |-> "PERSON", relation |-> "CONSUME", right |-> "FOOD"],
    [left |-> "PERSON", relation |-> "CONSUME", right |-> "ANIMAL"],
    [left |-> "DURATION", relation |-> "MOVE", right |-> "WEAPON"],
    [left |-> "INSECT", relation |-> "SIMILAR", right |-> "WEAPON"],
    [left |-> "DURATION", relation |-> "SIMILAR", right |-> "WEAPON"],
    [left |-> "BIRD", relation |-> "LOC", right |-> "PLACE"],
    [left |-> "PLACE", relation |-> "PART", right |-> "DIRECTION"],
    [left |-> "BIRD", relation |-> "NAME", right |-> "BIRD"],
    [left |-> "BIRD", relation |-> "TYPE", right |-> "PLACE"],
    [left |-> "BIRD", relation |-> "EQUIV", right |-> "BIRD"],
    [left |-> "BIRD", relation |-> "MOD", right |-> "SIZE"],
    [left |-> "ANIMAL", relation |-> "LOC", right |-> "LANDMASS"],
    [left |-> "ANIMAL", relation |-> "CONSUME", right |-> "ANIMAL"],
    [left |-> "PERSON", relation |-> "DISCOVER", right |-> "OBJECT"],
    [left |-> "PERSON", relation |-> "BOYCOTT", right |-> "OBJECT"],
    [left |-> "PERSON", relation |-> "LEARN", right |-> "READABLE"],
    [left |-> "PERSON", relation |-> "CREATE", right |-> "READABLE"],
    [left |-> "PERSON", relation |-> "COMMUNICATE", right |-> "READABLE"],
    [left |-> "LEARNER", relation |-> "LEARN", right |-> "READABLE"],
    [left |-> "EDUCATOR", relation |-> "TEACH", right |-> "READABLE"],
    [left |-> "PERSON", relation |-> "MOVE", right |-> "PLACE"],
    [left |-> "PERSON", relation |-> "ARRIVE", right |-> "PLACE"],
    [left |-> "PERSON", relation |-> "TRAVEL", right |-> "PLACE"],
    [left |-> "PERSON", relation |-> "LABOR", right |-> "OBJECT"],
    [left |-> "PERSON", relation |-> "ENJOY", right |-> "OBJECT"],
    [left |-> "PERSON", relation |-> "DO", right |-> "WORK"],
    [left |-> "PERSON", relation |-> "DO", right |-> "ACTIVITY"],
    [left |-> "PERSON", relation |-> "BE", right |-> "PLACE"],
    [left |-> "OBJECT", relation |-> "BE", right |-> "PLACE"],
    [left |-> "BUILDING", relation |-> "BE", right |-> "PLACE"],
    [left |-> "PERSON", relation |-> "MOD", right |-> "COLOR"],
    [left |-> "OBJECT", relation |-> "MOD", right |-> "COLOR"],
    [left |-> "PERSON", relation |-> "MOD", right |-> "SIZE"],
    [left |-> "OBJECT", relation |-> "MOD", right |-> "SIZE"],
    [left |-> "ACTION", relation |-> "MOD", right |-> "SPEED"],
    [left |-> "ACTION", relation |-> "MOD", right |-> "MANNER"],
    [left |-> "PERSON", relation |-> "USE", right |-> "DEVICE"],
    [left |-> "DEVICE", relation |-> "BE", right |-> "OBJECT"],
    [left |-> "N", relation |-> "MOD", right |-> "N"],
    [left |-> "OBJECT", relation |-> "MOD", right |-> "QUALITY"],
    [left |-> "QUALITY", relation |-> "MOD", right |-> "INTENSIFIER"],
    [left |-> "N", relation |-> "BE", right |-> "N"],
    [left |-> "N", relation |-> "BE", right |-> "ADJ"],
    [left |-> "N", relation |-> "EQUIV", right |-> "N"],
    [left |-> "N", relation |-> "R/P", right |-> "WHO"],
    [left |-> "N", relation |-> "R/P", right |-> "WHICH"],
    [left |-> "N", relation |-> "R/P", right |-> "THAT"],
    [left |-> "PERSON", relation |-> "R/P", right |-> "WHO"]
  >>

\* A variant of get_relevant_sefs with the majority filter left out
get_relevant_sefs_unfiltered(word_classes) ==
  LET all_classes == UNION Range(word_classes)
      InSentence(sef) == sef.left \in all_classes \/ sef.right \in all_classes
  IN  SelectSeq(CatalogSefs, InSentence)

\* SEFSet.get_relevant_sefs; word_classes is the sequence of class sets by
\* position
get_relevant_sefs(word_classes) ==
  LET all_classes == UNION Range(word_classes)
      InSentence(sef) == sef.left \in all_classes \/ sef.right \in all_classes
      relevant == SelectSeq(CatalogSefs, InSentence)
      count(sef) == Cardinality({k \in DOMAIN word_classes :
                       sef.left \in word_classes[k] \/ sef.right \in word_classes[k]})
      Twice(sef) == count(sef) >= 2
      sef_occurrences == SelectSeq(relevant, Twice)
  IN  IF sef_occurrences # <<>> THEN sef_occurrences ELSE relevant

\* A variant of relation_filler with the slip of taking the first relation
\* position of the sentence, between the two arguments or not
relation_filler_anywhere(sef, sentence_classes, left_num, right_num) ==
  LET relation_positions ==
        {k \in DOMAIN sentence_classes :
           \/ sef.relation \in sentence_classes[k].classes
           \/ lower(sentence_classes[k].word) = lower(tag_chars(sef.relation))}
  IN  IF sef.relation = "MOD" THEN [num |-> 0, word |-> tag_chars("MOD")]
      ELSE IF relation_positions = {} THEN [num |-> 0, word |-> tag_chars(sef.relation)]
      ELSE LET rnum == CHOOSE k \in relation_positions :
                         \A j \in relation_positions : k <= j
           IN  [num |-> rnum, word |-> sentence_classes[rnum].word]

\* The relation position and word chosen for one (left, right) pair in
\* SEFSet.create_complex_triples (lines 208-220)
relation_filler(sef, sentence_classes, left_num, right_num) ==
  LET relation_positions ==
        {k \in DOMAIN sentence_classes :
           \/ sef.relation \in sentence_classes[k].classes
           \/ lower(sentence_classes[k].word) = lower(tag_chars(sef.relation))}
      between == {k \in relation_positions :
                    \/ (left_num < k /\ k < right_num)
                    \/ (right_num < k /\ k < left_num)}
  IN  IF sef.relation = "MOD" THEN [num |-> 0, word |-> tag_chars("MOD")]
      ELSE IF between = {} THEN [num |-> 0, word |-> tag_chars(sef.relation)]
      ELSE LET rnum == CHOOSE k \in between : \A j \in between : k <= j
           IN  [num |-> rnum, word |-> sentence_classes[rnum].word]

\* A variant of triples_of_sef with the slip of not testing the right
\* filler's classes against the SEF's right tag
triples_of_sef_any_right(sef, sentence_classes) ==
  LET n == Len(sentence_classes)
      pairs == [k \in 1..(n * n) |-> <<((k - 1) \div n) + 1, ((k - 1) % n) + 1>>]
      Binds(p) == /\ sef.left \in sentence_classes[p[1]].classes
                  /\ p[1] # p[2]
      bound == SelectSeq(pairs, Binds)
  IN  [k \in DOMAIN bound |->
         LET left_num == bound[k][1]
             right_num == bound[k][2]
             rel == relation_filler(sef, sentence_classes, left_num, right_num)
         IN  [sef |-> sef,
              positions |-> <<left_num, rel.num, right_num>>,
              words |-> <<sentence_classes[left_num].word, rel.word,
                          sentence_classes[right_num].word>>]]

\* A variant of triples_of_sef with the slip of also pairing a position with
\* itself
triples_of_sef_same_position(sef, sentence_classes) ==
  LET n == Len(sentence_classes)
      pairs == [k \in 1..(n * n) |-> <<((k - 1) \div n) + 1, ((k - 1) % n) + 1>>]
      Binds(p) == /\ sef.left \in sentence_classes[p[1]].classes
                  /\ sef.right \in sentence_classes[p[2]].classes
      bound == SelectSeq(pairs, Binds)
  IN  [k \in DOMAIN bound |->
         LET left_num == bound[k][1]
             right_num == bound[k][2]
             rel == relation_filler(sef, sentence_classes, left_num, right_num)
         IN  [sef |-> sef,
              positions |-> <<left_num, rel.num, right_num>>,
              words |-> <<sentence_classes[left_num].word, rel.word,
                          sentence_classes[right_num].word>>]]

\* The complex triples one SEF contributes in SEFSet.create_complex_triples:
\* left positions outermost, right positions innermost, both ascending
triples_of_sef(sef, sentence_classes) ==
  LET n == Len(sentence_classes)
      pairs == [k \in 1..(n * n) |-> <<((k - 1) \div n) + 1, ((k - 1) % n) + 1>>]
      Binds(p) == /\ sef.left \in sentence_classes[p[1]].classes
                  /\ sef.right \in sentence_classes[p[2]].classes
                  /\ p[1] # p[2]
      bound == SelectSeq(pairs, Binds)
  IN  [k \in DOMAIN bound |->
         LET left_num == bound[k][1]
             right_num == bound[k][2]
             rel == relation_filler(sef, sentence_classes, left_num, right_num)
         IN  [sef |-> sef,
              positions |-> <<left_num, rel.num, right_num>>,
              words |-> <<sentence_classes[left_num].word, rel.word,
                          sentence_classes[right_num].word>>]]

\* SEFSet.create_complex_triples
create_complex_triples(relevant_sefs, sentence_classes) ==
  concat([k \in DOMAIN relevant_sefs |->
            triples_of_sef(relevant_sefs[k], sentence_classes)])

\* A variant of order_valid_first with the MOD branch left out
order_valid_first_no_mod(ct) ==
  LET sef == ct.sef
      left_num == ct.positions[1]
      rel_num == ct.positions[2]
      right_num == ct.positions[3]
  IN  IF sef.relation \in {"V", "HIT", "CONSUME", "BE", "EQUIV"}
      THEN left_num < right_num
             /\ (rel_num = 0 \/ (left_num < rel_num /\ rel_num < right_num))
      ELSE IF sef.relation = "SIMILAR"
      THEN left_num < rel_num /\ rel_num < right_num
      ELSE TRUE

\* A variant of order_valid_first with the slip of applying the verb rule
\* only under the nominal left tags of the second rule block
order_valid_first_nominal_left(ct) ==
  LET sef == ct.sef
      left_num == ct.positions[1]
      rel_num == ct.positions[2]
      right_num == ct.positions[3]
  IN  IF sef.relation = "MOD"
      THEN IF sef.right \in {"ADJ", "EMOTION", "ATTITUDE", "AGE"}
           THEN right_num < left_num
           ELSE IF sef.right = "ART" THEN right_num < left_num ELSE TRUE
      ELSE IF sef.left \in {"N", "PERSON", "ANIMAL", "OBJECT"}
              /\ sef.relation \in {"V", "HIT", "CONSUME", "BE", "EQUIV"}
      THEN left_num < right_num
             /\ (rel_num = 0 \/ (left_num < rel_num /\ rel_num < right_num))
      ELSE IF sef.relation = "SIMILAR"
      THEN left_num < rel_num /\ rel_num < right_num
      ELSE TRUE

\* SEFSet.filter_by_order, first rule block (lines 246-263): the value of
\* `valid` at the first `if valid: filtered.append(ct)`
order_valid_first(ct) ==
  LET sef == ct.sef
      left_num == ct.positions[1]
      rel_num == ct.positions[2]
      right_num == ct.positions[3]
  IN  IF sef.relation = "MOD"
      THEN IF sef.right \in {"ADJ", "EMOTION", "ATTITUDE", "AGE"}
           THEN right_num < left_num
           ELSE IF sef.right = "ART" THEN right_num < left_num ELSE TRUE
      ELSE IF sef.relation \in {"V", "HIT", "CONSUME", "BE", "EQUIV"}
      THEN left_num < right_num
             /\ (rel_num = 0 \/ (left_num < rel_num /\ rel_num < right_num))
      ELSE IF sef.relation = "SIMILAR"
      THEN left_num < rel_num /\ rel_num < right_num
      ELSE TRUE

\* SEFSet.filter_by_order, second rule block (lines 268-292): TRUE when the
\* block leaves `valid` as it found it
order_valid_second(ct) ==
  LET sef == ct.sef
      left_num == ct.positions[1]
      rel_num == ct.positions[2]
      right_num == ct.positions[3]
  IN  IF sef.relation = "MOD" /\ sef.right = "ADJ"
      THEN ~(left_num < right_num)
      ELSE IF sef.relation = "MOD" /\ sef.right = "ART"
      THEN ~(left_num < right_num)
      ELSE IF sef.relation = "MOD" /\ sef.left = "N" /\ sef.right = "N"
      THEN (IF left_num >= right_num THEN left_num - right_num
                                     ELSE right_num - left_num) = 1
      ELSE IF sef.left \in {"N", "PERSON", "ANIMAL", "OBJECT"}
              /\ sef.relation \in {"V", "HIT", "CONSUME", "MOVE", "BE", "EQUIV"}
      THEN left_num < rel_num /\ rel_num < right_num
      ELSE IF sef.relation = "PREP" \/ sef.relation \in {"LOC", "PART"}
      THEN left_num < right_num
      ELSE TRUE

\* What SEFSet.filter_by_order appends for one triple: once at line 266 when
\* the first block holds, and once more at line 295 when `valid` is still
\* true after the second block
order_emit(ct) ==
  (IF order_valid_first(ct) THEN <<ct>> ELSE <<>>)
    \o (IF order_valid_first(ct) /\ order_valid_second(ct) THEN <<ct>> ELSE <<>>)

\* SEFSet.filter_by_order
filter_by_order(complex_triples) ==
  concat([k \in DOMAIN complex_triples |-> order_emit(complex_triples[k])])

\* The bare syntactic tags of SEFSet._abstraction_level
syntactic_classes == {"N", "V", "ADJ", "ADV", "ART", "PREP"}

\* SEFSet._abstraction_level
abstraction_level(sef) ==
  (IF sef.left \in syntactic_classes THEN 10 ELSE 0)
    + (IF sef.right \in syntactic_classes THEN 10 ELSE 0)
    + (IF sef.relation \in syntactic_classes THEN 10 ELSE 0)

\* A variant of least_abstract with the slip of keeping the first triple of
\* the group whatever its level
least_abstract_first(cts) == cts[1]

\* A variant of least_abstract with the slip of keeping the last triple of
\* minimal level instead of the first
least_abstract_last(cts) ==
  cts[CHOOSE k \in DOMAIN cts :
        /\ \A j \in DOMAIN cts :
             abstraction_level(cts[k].sef) <= abstraction_level(cts[j].sef)
        /\ \A j \in (k + 1)..Len(cts) :
             abstraction_level(cts[j].sef) > abstraction_level(cts[k].sef)]

\* min(cts, key=abstraction level): the first triple of minimal level
least_abstract(cts) ==
  cts[CHOOSE k \in DOMAIN cts :
        /\ \A j \in DOMAIN cts :
             abstraction_level(cts[k].sef) <= abstraction_level(cts[j].sef)
        /\ \A j \in 1..(k - 1) :
             abstraction_level(cts[j].sef) > abstraction_level(cts[k].sef)]

\* SEFSet.eliminate_abstract_duplicates: groups in order of first occurrence
\* of their positions tuple, one triple kept per group
eliminate_abstract_duplicates(complex_triples) ==
  concat([k \in DOMAIN complex_triples |->
            IF \E j \in 1..(k - 1) :
                 complex_triples[j].positions = complex_triples[k].positions
            THEN <<>>
            ELSE LET SamePos(ct) == ct.positions = complex_triples[k].positions
                     cts == SelectSeq(complex_triples, SamePos)
                 IN  IF Len(cts) = 1 THEN cts ELSE <<least_abstract(cts)>>])

\* ------------------------------------------------------------------------
\* Analyzer (semantic_analyzer.py)
\* ------------------------------------------------------------------------

\* SemanticAnalyzer.analyze, step 0 for one token of a token list:
\* ''.join(c.lower() for c in t if c.isalnum())
clean_token(t) == lower(SelectSeq(t, isalnum))

\* SemanticAnalyzer.analyze, step 0: cleaned tokens, empty ones removed.
\* A string input is its whitespace-separated pieces cleaned the same way.
clean_tokens(sentence) ==
  LET NonEmpty(t) == t # <<>>
  IN  SelectSeq([k \in DOMAIN sentence |-> clean_token(sentence[k])], NonEmpty)

\* The surface-form reductions tried for an unknown word (lines 53-67)
tried(word) ==
  (IF endswith(word, <<"'", "s">>) THEN <<drop_last(word, 2)>> ELSE <<>>)
  \o (IF endswith(word, <<"s">>) /\ Len(word) > 3 THEN <<drop_last(word, 1)>> ELSE <<>>)
  \o (IF endswith(word, <<"e", "s">>) /\ Len(word) > 4 THEN <<drop_last(word, 2)>> ELSE <<>>)
  \o (IF endswith(word, <<"e", "d">>) /\ Len(word) > 3 THEN <<drop_last(word, 2)>> ELSE <<>>)
  \o (IF endswith(word, <<"i", "n", "g">>) /\ Len(word) > 4 THEN <<drop_last(word, 3)>> ELSE <<>>)
  \o (IF endswith(word, <<"l", "y">>) /\ Len(word) > 3 THEN <<drop_last(word, 2)>> ELSE <<>>)

\* The loop over the candidates (lines 69-77): the senses of the first
\* candidate with a non-empty lookup, or none
RECURSIVE first_found(_, _)
first_found(ent, cands) ==
  IF cands = <<>> THEN <<>>
  ELSE IF Head(cands) = <<>> THEN first_found(ent, Tail(cands))
  ELSE LET senses == lookup(ent, lower(Head(cands)))
       IN  IF senses # <<>> THEN senses ELSE first_found(ent, Tail(cands))

\* A variant of senses_of_word with the slip of adding the generic sense
\* whenever the direct lookup is empty, also when a reduction was found
senses_of_word_eager_generic(ent, word) ==
  LET direct == lookup(ent, word)
      reduced == first_found(ent, tried(word))
      added == add_generic_sense(ent, word)
  IN  IF direct # <<>> THEN [entries |-> ent, senses |-> direct]
      ELSE IF reduced # <<>> THEN [entries |-> added, senses |-> reduced]
      ELSE [entries |-> added, senses |-> lookup(added, word)]

\* A variant of senses_of_word with the generic-sense fallback left out
senses_of_word_no_fallback(ent, word) ==
  LET direct == lookup(ent, word)
      reduced == first_found(ent, tried(word))
  IN  IF direct # <<>> THEN [entries |-> ent, senses |-> direct]
      ELSE [entries |-> ent, senses |-> reduced]

\* A variant of senses_of_word with the slip of storing the senses found
\* through a reduction under the word itself
senses_of_word_caching(ent, word) ==
  LET direct == lookup(ent, word)
      reduced == first_found(ent, tried(word))
  IN  IF direct # <<>> THEN [entries |-> ent, senses |-> direct]
      ELSE IF reduced # <<>>
           THEN [entries |-> [w \in DOMAIN ent \cup {word} |->
                                IF w = word THEN reduced ELSE ent[w]],
                 senses |-> reduced]
      ELSE LET added == add_generic_sense(ent, word)
           IN  [entries |-> added, senses |-> lookup(added, word)]

\* The senses analyze gives one word (lines 49-82), and the lexicon after
senses_of_word(ent, word) ==
  LET direct == lookup(ent, word)
      reduced == first_found(ent, tried(word))
  IN  IF direct # <<>> THEN [entries |-> ent, senses |-> direct]
      ELSE IF reduced # <<>> THEN [entries |-> ent, senses |-> reduced]
      ELSE LET added == add_generic_sense(ent, word)
           IN  [entries |-> added, senses |-> lookup(added, word)]

\* The classes collected from a word's senses (lines 85-88)
classes_of(senses) ==
  UNION {{senses[k].syntactic_class} \cup Range(senses[k].semantic_classes) :
           k \in DOMAIN senses}

\* SemanticAnalyzer.analyze, step 1: the loop over the tokens, left to right,
\* threading the lexicon
RECURSIVE lookup_words(_, _, _)
lookup_words(ent, tokens, table) ==
  IF Len(table) = Len(tokens) THEN [entries |-> ent, sentence_classes |-> table]
  ELSE LET word == tokens[Len(table) + 1]
           r == senses_of_word(ent, word)
       IN  lookup_words(r.entries, tokens,
             Append(table, [word |-> word, senses |-> r.senses,
                            classes |-> classes_of(r.senses)]))

\* The verb-like relations of SemanticAnalyzer.generate_structures (line 158)
verb_relations ==
  {"V", "HIT", "CONSUME", "MOVE", "BE", "EQUIV", "DISCOVER", "BOYCOTT",
   "SIMILAR", "RESEMBLE"}

\* list.index: zero-based index of the first occurrence
index_of(seq, x) == (CHOOSE k \in DOMAIN seq : seq[k] = x /\ \A j \in 1..(k - 1) : seq[j] # x) - 1

\* max(0, 1 - idx)
boost(idx) == IF 1 - idx > 0 THEN 1 - idx ELSE 0

\* The verb part of a candidate's score (lines 171-181)
verb_score(ct, sentence_classes) ==
  LET rel_num == ct.positions[2]
  IN  IF rel_num # 0 /\ rel_num \in DOMAIN sentence_classes
      THEN LET verb_senses == sentence_classes[rel_num].senses
               hits == {k \in DOMAIN verb_senses :
                          ct.sef.relation \in Range(verb_senses[k].semantic_classes)}
           IN  IF hits = {} THEN 0
               ELSE LET vs == verb_senses[CHOOSE k \in hits : \A j \in hits : k <= j]
                    IN  3 + boost(index_of(vs.semantic_classes, ct.sef.relation))
      ELSE 0

\* The argument part of a candidate's score for one side (lines 184-204)
argument_score(num, tag, sentence_classes) ==
  IF num # 0 /\ num \in DOMAIN sentence_classes
  THEN LET word_senses == sentence_classes[num].senses
           hits == {k \in DOMAIN word_senses : matches_class(word_senses[k], tag)}
       IN  IF hits = {} THEN 0
           ELSE LET s == word_senses[CHOOSE k \in hits : \A j \in hits : k <= j]
                IN  IF tag \in Range(s.semantic_classes)
                    THEN 2 + boost(index_of(s.semantic_classes, tag))
                    ELSE 2
  ELSE 0

\* The score of one candidate root (lines 166-206)
root_score(ct, sentence_classes) ==
  verb_score(ct, sentence_classes)
    + argument_score(ct.positions[1], ct.sef.left, sentence_classes)
    + argument_score(ct.positions[3], ct.sef.right, sentence_classes)

\* A variant of main_triples with the score filter left out: every verb-like
\* triple is a root
main_triples_unscored(complex_triples, sentence_classes) ==
  LET VerbLike(ct) == ct.sef.relation \in verb_relations
      candidate_triples == SelectSeq(complex_triples, VerbLike)
  IN  IF candidate_triples # <<>> THEN candidate_triples
      ELSE SubSeq(complex_triples, 1, IF Len(complex_triples) >= 1 THEN 1 ELSE 0)

\* A variant of main_triples with the abstraction tie-break left out: every
\* verb-like triple of maximal score is a root
main_triples_no_tiebreak(complex_triples, sentence_classes) ==
  LET VerbLike(ct) == ct.sef.relation \in verb_relations
      candidate_triples == SelectSeq(complex_triples, VerbLike)
      scores == {root_score(candidate_triples[k], sentence_classes) :
                   k \in DOMAIN candidate_triples}
      max_score == CHOOSE s \in scores : \A t \in scores : t <= s
      Best(ct) == root_score(ct, sentence_classes) = max_score
      chosen == IF candidate_triples = <<>> THEN <<>>
                ELSE IF max_score > 0 THEN SelectSeq(candidate_triples, Best)
                ELSE candidate_triples
  IN  IF chosen # <<>> THEN chosen
      ELSE SubSeq(complex_triples, 1, IF Len(complex_triples) >= 1 THEN 1 ELSE 0)

\* A variant of main_triples with the slip of leaving out the fallback to
\* the first triple when no triple has a verb-like relation
main_triples_verbs_only(complex_triples, sentence_classes) ==
  LET VerbLike(ct) == ct.sef.relation \in verb_relations
      candidate_triples == SelectSeq(complex_triples, VerbLike)
      scores == {root_score(candidate_triples[k], sentence_classes) :
                   k \in DOMAIN candidate_triples}
      max_score == CHOOSE s \in scores : \A t \in scores : t <= s
      Best(ct) == root_score(ct, sentence_classes) = max_score
      candidates == SelectSeq(candidate_triples, Best)
      levels == {abstraction_level(candidates[k].sef) : k \in DOMAIN candidates}
      min_abs == CHOOSE a \in levels : \A b \in levels : a <= b
      Specific(ct) == abstraction_level(ct.sef) = min_abs
  IN  IF candidate_triples = <<>> THEN <<>>
      ELSE IF max_score > 0 THEN SelectSeq(candidates, Specific)
      ELSE candidate_triples

\* The root triples chosen by SemanticAnalyzer.generate_structures
\* (lines 153-226)
main_triples(complex_triples, sentence_classes) ==
  LET VerbLike(ct) == ct.sef.relation \in verb_relations
      candidate_triples == SelectSeq(complex_triples, VerbLike)
      scores == {root_score(candidate_triples[k], sentence_classes) :
                   k \in DOMAIN candidate_triples}
      max_score == CHOOSE s \in scores : \A t \in scores : t <= s
      Best(ct) == root_score(ct, sentence_classes) = max_score
      candidates == SelectSeq(candidate_triples, Best)
      levels == {abstraction_level(candidates[k].sef) : k \in DOMAIN candidates}
      min_abs == CHOOSE a \in levels : \A b \in levels : a <= b
      Specific(ct) == abstraction_level(ct.sef) = min_abs
      chosen == IF candidate_triples = <<>> THEN <<>>
                ELSE IF max_score > 0 THEN SelectSeq(candidates, Specific)
                ELSE candidate_triples
  IN  IF chosen # <<>> THEN chosen
      ELSE SubSeq(complex_triples, 1, IF Len(complex_triples) >= 1 THEN 1 ELSE 0)

\* SemanticAnalyzer._choose_best_modifier
choose_best_modifier(modifiers) == least_abstract(modifiers)

\* The triples _build_structure_iterative accepts as modifiers of the
\* element at position target (lines 267-290)
modifiers_of(target, root_triple, all_triples, seen_positions) ==
  LET Modifies(ct) ==
        /\ ct # root_triple
        /\ ~ \E p \in Range(ct.positions) : p > 0 /\ p \in seen_positions
        /\ ct.sef.relation = "MOD"
        /\ ct.positions[1] = target
  IN  SelectSeq(all_triples, Modifies)

\* SemanticAnalyzer._build_structure_iterative.  A child is <<>> (None) or
\* the one-element sequence holding the sub-structure.
RECURSIVE build_structure_iterative(_, _, _)
build_structure_iterative(root_triple, all_triples, seen_positions) ==
  LET seen == seen_positions \cup {p \in Range(root_triple.positions) : p > 0}
      left_modifiers == modifiers_of(root_triple.positions[1], root_triple, all_triples, seen)
      right_modifiers == modifiers_of(root_triple.positions[3], root_triple, all_triples, seen)
  IN  [sef |-> root_triple.sef,
       positions |-> root_triple.positions,
       words |-> root_triple.words,
       left |-> IF left_modifiers # <<>>
                THEN <<build_structure_iterative(choose_best_modifier(left_modifiers),
                                                 all_triples, seen)>>
                ELSE <<>>,
       right |-> IF right_modifiers # <<>>
                 THEN <<build_structure_iterative(choose_best_modifier(right_modifiers),
                                                  all_triples, seen)>>
                 ELSE <<>>]

\* A variant of generate_structures with the slip of building a structure
\* for the first root only
generate_structures_first_root(complex_triples, sentence_classes) ==
  IF complex_triples = <<>> THEN <<>>
  ELSE LET roots == main_triples(complex_triples, sentence_classes)
       IN  <<build_structure_iterative(roots[1], complex_triples, {})>>

\* SemanticAnalyzer.generate_structures
generate_structures(complex_triples, sentence_classes) ==
  IF complex_triples = <<>> THEN <<>>
  ELSE LET roots == main_triples(complex_triples, sentence_classes)
       IN  [k \in DOMAIN roots |->
              build_structure_iterative(roots[k], complex_triples, {})]

\* SemanticAnalyzer._collect_sefs
RECURSIVE collect_sefs(_)
collect_sefs(structure) ==
  <<[sef |-> structure.sef, positions |-> structure.positions]>>
    \o (IF structure.left # <<>> THEN collect_sefs(structure.left[1]) ELSE <<>>)
    \o (IF structure.right # <<>> THEN collect_sefs(structure.right[1]) ELSE <<>>)

\* The score select_word_senses gives one sense of the word at pos
\* (lines 409-415)
sense_score(sense, pos, sefs_used) ==
  Cardinality({k \in DOMAIN sefs_used :
     /\ pos \in Range(sefs_used[k].positions)
     /\ \/ (pos = sefs_used[k].positions[1] /\ matches_class(sense, sefs_used[k].sef.left))
        \/ (pos = sefs_used[k].positions[3] /\ matches_class(sense, sefs_used[k].sef.right))})

\* A variant of select_sense_map with the slip of replacing the best sense
\* on an equal score, so that the last sense of maximal score is kept
select_sense_map_last_on_ties(interpretation, sentence_classes) ==
  LET sefs_used == collect_sefs(interpretation)
  IN  [pos \in {p \in DOMAIN sentence_classes : sentence_classes[p].senses # <<>>} |->
         LET senses == sentence_classes[pos].senses
             score == [k \in DOMAIN senses |-> sense_score(senses[k], pos, sefs_used)]
             best == CHOOSE k \in DOMAIN senses :
                       /\ \A j \in DOMAIN senses : score[j] <= score[k]
                       /\ \A j \in (k + 1)..Len(senses) : score[j] < score[k]
         IN  senses[best]]

\* The sense map of SemanticAnalyzer.select_word_senses (lines 386-422):
\* per position the first sense of maximal score
select_sense_map(interpretation, sentence_classes) ==
  LET sefs_used == collect_sefs(interpretation)
  IN  [pos \in {p \in DOMAIN sentence_classes : sentence_classes[p].senses # <<>>} |->
         LET senses == sentence_classes[pos].senses
             score == [k \in DOMAIN senses |-> sense_score(senses[k], pos, sefs_used)]
             best == CHOOSE k \in DOMAIN senses :
                       /\ \A j \in DOMAIN senses : score[j] <= score[k]
                       /\ \A j \in 1..(k - 1) : score[j] < score[k]
         IN  senses[best]]

\* str(n) for a sense number
RECURSIVE digits(_)
digits(n) ==
  LET d == <<"0", "1", "2", "3", "4", "5", "6", "7", "8", "9">>
  IN  IF n < 10 THEN <<d[n + 1]>> ELSE digits(n \div 10) \o <<d[(n % 10) + 1]>>

\* f"{sense.word}_{sense.sense_num}"
sense_label(sense) == sense.word \o <<"_">> \o digits(sense.sense_num)

\* SemanticAnalyzer._add_senses_to_structure
RECURSIVE add_senses_to_structure(_, _)
add_senses_to_structure(struct, sense_map) ==
  LET left_num == struct.positions[1]
      right_num == struct.positions[3]
  IN  [sef |-> struct.sef,
       positions |-> struct.positions,
       words |-> struct.words,
       words_with_senses |->
         <<IF left_num \in DOMAIN sense_map THEN sense_label(sense_map[left_num])
                                            ELSE struct.words[1],
           struct.words[2],
           IF right_num \in DOMAIN sense_map THEN sense_label(sense_map[right_num])
                                             ELSE struct.words[3]>>,
       left |-> IF struct.left # <<>>
                THEN <<add_senses_to_structure(struct.left[1], sense_map)>> ELSE <<>>,
       right |-> IF struct.right # <<>>
                 THEN <<add_senses_to_structure(struct.right[1], sense_map)>> ELSE <<>>]

\* ------------------------------------------------------------------------
\* Inputs
\* ------------------------------------------------------------------------

\* Raw tokens the enumerated inputs are made of: an article, an adjective, a
\* capitalised noun, a word known only through suffix stripping ("fishes"),
\* an unknown word that is also the first reduction of that word ("fishe"),
\* a verb, a place noun and a token of punctuation only
Vocabulary ==
  {<<"t", "h", "e">>,
   <<"o", "l", "d">>,
   <<"M", "e", "n">>,
   <<"f", "i", "s", "h", "e", "s">>,
   <<"f", "i", "s", "h", "e">>,
   <<"w", "a", "l", "k", "s">>,
   <<"h", "o", "u", "s", "e">>,
   <<"-", "-">>}

\* "the angry pitcher struck the careless batter"
ScenarioA ==
  <<<<"t", "h", "e">>, <<"a", "n", "g", "r", "y">>,
    <<"p", "i", "t", "c", "h", "e", "r">>, <<"s", "t", "r", "u", "c", "k">>,
    <<"t", "h", "e">>, <<"c", "a", "r", "e", "l", "e", "s", "s">>,
    <<"b", "a", "t", "t", "e", "r">>>>

\* "time flies like arrows"
ScenarioB ==
  <<<<"t", "i", "m", "e">>, <<"f", "l", "i", "e", "s">>,
    <<"l", "i", "k", "e">>, <<"a", "r", "r", "o", "w", "s">>>>

\* "old men eat fish"
ScenarioC ==
  <<<<"o", "l", "d">>, <<"m", "e", "n">>, <<"e", "a", "t">>,
    <<"f", "i", "s", "h">>>>

\* "house old walks fishes": a sentence of the vocabulary whose verb-like
\* final triples (N V N) and (N BE ADJ) share the maximal root score and
\* differ in abstraction level
TiedRoots ==
  <<<<"h", "o", "u", "s", "e">>, <<"o", "l", "d">>,
    <<"w", "a", "l", "k", "s">>, <<"f", "i", "s", "h", "e", "s">>>>

\* The sentences analyze is called with
Sentences ==
  UNION {[1..n -> Vocabulary] : n \in 0..MaxLen}
    \cup {ScenarioA, ScenarioB, ScenarioC, TiedRoots}

\* ------------------------------------------------------------------------
\* State
\* ------------------------------------------------------------------------

VARIABLES
  entries,           \* Lexicon.entries: word -> sequence of senses
  phase,             \* "idle", or which call on the current sentence returned last
  sentence,          \* the raw token list of the current call
  sentence_classes,  \* the word-position class table of the last analyze
  relevant_sefs,     \* result of get_relevant_sefs in the last analyze
  complex_triples,   \* result of create_complex_triples
  filtered_triples,  \* result of filter_by_order
  final_triples,     \* result of eliminate_abstract_duplicates
  interpretations,   \* what the last analyze returned
  previous,          \* <<r>> when the call before, on the same sentence, returned r
  generic_added,     \* words given a generic sense by the calls on this sentence
  sense_map,         \* the sense map of the last select_word_senses
  sense_interp,      \* <<s>> when the last select_word_senses returned s
  store,             \* the file custom_lexicon.json
  call,              \* the last call made on the lexicon or the analyzer
  result             \* what the last Lexicon call returned (<<>> for None)

vars ==
  <<entries, phase, sentence, sentence_classes, relevant_sefs, complex_triples,
    filtered_triples, final_triples, interpretations, previous, generic_added,
    sense_map, sense_interp, store, call, result>>

\* A call as `call` records it: the method, its word argument, its persist
\* argument, and what happened to the file operations it made
Call(op, word, persist, io) ==
  [op |-> op, word |-> word, persist |-> persist, io |-> io]

\* SemanticAnalyzer.__init__: seed lexicon, nothing analysed yet
Init ==
  /\ entries = SeedLexicon
  /\ phase = "idle"
  /\ sentence = <<>>
  /\ sentence_classes = <<>>
  /\ relevant_sefs = <<>>
  /\ complex_triples = <<>>
  /\ filtered_triples = <<>>
  /\ final_triples = <<>>
  /\ interpretations = <<>>
  /\ previous = <<>>
  /\ generic_added = {}
  /\ sense_map = <<>>
  /\ sense_interp = <<>>
  /\ store = StoreAbsent
  /\ call = Call("__init__", <<>>, FALSE, "ok")
  /\ result = <<>>

\* SemanticAnalyzer.analyze(s): steps 1 to 6 in the order of the code, each
\* step's result bound once and then stored
analyze(s) ==
  \E step1 \in {lookup_words(entries, clean_tokens(s), <<>>)} :
  \E relevant \in {get_relevant_sefs([k \in DOMAIN step1.sentence_classes |->
                                        step1.sentence_classes[k].classes])} :
  \E triples \in {create_complex_triples(relevant, step1.sentence_classes)} :
  \E filtered \in {filter_by_order(triples)} :
  \E final \in {eliminate_abstract_duplicates(filtered)} :
    /\ entries' = step1.entries
    /\ sentence_classes' = step1.sentence_classes
    /\ relevant_sefs' = relevant
    /\ complex_triples' = triples
    /\ filtered_triples' = filtered
    /\ final_triples' = final
    /\ interpretations' = generate_structures(final, step1.sentence_classes)
    /\ sense_map' = <<>>
    /\ sense_interp' = <<>>
    /\ call' = Call("analyze", <<>>, FALSE, "ok")
    /\ UNCHANGED <<store, result>>

\* analyzer.analyze(s) for a new sentence
Analyze(s) ==
  /\ phase = "idle"
  /\ analyze(s)
  /\ generic_added' = DOMAIN entries' \ DOMAIN entries
  /\ sentence' = s
  /\ previous' = <<>>
  /\ phase' = "analyzed"

\* analyzer.analyze called again on the same sentence, no other lexicon
\* operation in between
AnalyzeAgain ==
  /\ phase = "analyzed"
  /\ analyze(sentence)
  /\ generic_added' = generic_added \cup (DOMAIN entries' \ DOMAIN entries)
  /\ previous' = <<interpretations>>
  /\ phase' = "reanalyzed"
  /\ UNCHANGED sentence

\* analyzer.select_word_senses(interpretations[k], sentence_classes)
SelectWordSenses(k) ==
  /\ phase = "analyzed"
  /\ k \in DOMAIN interpretations
  /\ sentence_classes # <<>>
  /\ \E m \in {select_sense_map(interpretations[k], sentence_classes)} :
       /\ sense_map' = m
       /\ sense_interp' = <<add_senses_to_structure(interpretations[k], m)>>
  /\ phase' = "selected"
  /\ UNCHANGED <<entries, sentence, sentence_classes, relevant_sefs,
                 complex_triples, filtered_triples, final_triples,
                 interpretations, previous, generic_added, store, call,
                 result>>

\* The caller is done with the sentence: the per-analysis structures are
\* dropped, the lexicon stays
Return ==
  /\ phase # "idle"
  /\ phase' = "idle"
  /\ sentence' = <<>>
  /\ sentence_classes' = <<>>
  /\ relevant_sefs' = <<>>
  /\ complex_triples' = <<>>
  /\ filtered_triples' = <<>>
  /\ final_triples' = <<>>
  /\ interpretations' = <<>>
  /\ previous' = <<>>
  /\ generic_added' = {}
  /\ sense_map' = <<>>
  /\ sense_interp' = <<>>
  /\ UNCHANGED <<entries, store, call, result>>

\* ------------------------------------------------------------------------
\* The Lexicon used on its own (lexicon.py), with its custom store
\* ------------------------------------------------------------------------

\* Most senses added through add_sense and add_generic_sense calls that the
\* model follows in one lexicon
MaxAdded == 2

\* Most items in custom_lexicon.json for a persisting call to be followed
MaxStored == 2

\* Words the Lexicon methods are called with: an unknown word with a capital
\* and a seed word
LexWords ==
  {<<"Z", "o", "r", "k">>, <<"p", "i", "t", "c", "h", "e", "r">>}

\* Words lookup is called with
LookupWords ==
  {<<"Z", "o", "r", "k">>, <<"P", "i", "t", "c", "h", "e", "r">>}

\* (sense_num, syn_class, features, sem_classes) arguments of add_sense
SenseArgs ==
  {[sense_num |-> 3, syn_class |-> "V", features |-> <<"PAST">>,
    sem_classes |-> <<"HIT", "TOUCH">>]}

\* A list element of the store that is not a JSON object (a number)
NotAnObject == [is_dict |-> FALSE, d |-> [number |-> 0]]

\* The contents custom_lexicon.json is found with: no file, a file that is
\* not JSON, a well-formed file (its item leaving keys to their defaults),
\* and a file whose second word has a number where an item is expected
InitialStores ==
  {StoreAbsent,
   StoreGarbage,
   StoreData(<<[word |-> <<"Z", "o", "r", "k">>,
               senses |-> <<[is_dict |-> TRUE, d |-> [syn_class |-> "V"]]>>]>>),
   StoreData(<<[word |-> <<"z", "o", "r", "k">>,
               senses |-> <<StoredItem(1, "N", <<>>, <<"OBJECT">>)>>],
              [word |-> <<"p", "i", "t", "c", "h", "e", "r">>,
               senses |-> <<NotAnObject>>]>>)}

\* Sentences analyze is called with next to the Lexicon calls
LexSentences ==
  {<<<<"M", "e", "n">>, <<"Z", "o", "r", "k">>>>}

\* Number of senses the words of LexWords have in a mapping
sense_count(ent) ==
  Cardinality(UNION {{<<w, k>> : k \in DOMAIN lookup(ent, w)} : w \in LexWords})

\* Senses of those words that were added after _initialize_lexicon
added(ent) == sense_count(ent) - sense_count(SeedLexicon)

\* Number of items in the store
stored(s) == Len(store_pairs(s.data))

\* The variables of an analysis, which the Lexicon methods do not touch
analysis_vars ==
  <<phase, sentence, sentence_classes, relevant_sefs, complex_triples,
    filtered_triples, final_triples, interpretations, previous, generic_added,
    sense_map, sense_interp>>

\* Lexicon() in a directory holding any of the stores, readable or not
LexInit ==
  /\ store \in InitialStores
  /\ \E readable \in BOOLEAN :
       /\ entries = new_lexicon(store, readable)
       /\ call = Call("__init__", <<>>, FALSE,
                      IF readable THEN "ok" ELSE "read_error")
  /\ result = <<>>
  /\ phase = "idle"
  /\ sentence = <<>>
  /\ sentence_classes = <<>>
  /\ relevant_sefs = <<>>
  /\ complex_triples = <<>>
  /\ filtered_triples = <<>>
  /\ final_triples = <<>>
  /\ interpretations = <<>>
  /\ previous = <<>>
  /\ generic_added = {}
  /\ sense_map = <<>>
  /\ sense_interp = <<>>

\* Lexicon() again (a new process): the mapping is rebuilt from the seed
\* vocabulary and the store as it is now
Construct(readable) ==
  /\ phase = "idle"
  /\ entries' = new_lexicon(store, readable)
  /\ call' = Call("__init__", <<>>, FALSE,
                  IF readable THEN "ok" ELSE "read_error")
  /\ result' = <<>>
  /\ UNCHANGED <<store, analysis_vars>>

\* lexicon.add_sense(word, a.sense_num, a.syn_class, a.features, a.sem_classes)
AddSense(word, a) ==
  /\ phase = "idle"
  /\ added(entries) < MaxAdded
  /\ entries' = add_sense(entries, word, a.sense_num, a.syn_class,
                          a.features, a.sem_classes)
  /\ call' = Call("add_sense", word, FALSE, "ok")
  /\ result' = <<>>
  /\ UNCHANGED <<store, analysis_vars>>

\* lexicon.add_generic_sense(word, persist), the file operations of a
\* persisting call ending as io says
AddGenericSense(word, persist, io) ==
  /\ phase = "idle"
  /\ added(entries) < MaxAdded
  /\ persist => stored(store) < MaxStored
  /\ ~persist => io = "ok"
  /\ \E sense_num \in {Len(lookup(entries, word)) + 1} :
     \E after \in {add_generic_sense(entries, word)} :
       /\ entries' = after
       /\ store' = IF persist
                   THEN save_custom_entry(store, io, lower(word), sense_num,
                                          "N", <<>>, <<"OBJECT">>)
                   ELSE store
       /\ result' = lookup(after, word)
  /\ call' = Call("add_generic_sense", word, persist, io)
  /\ UNCHANGED analysis_vars

\* lexicon.lookup(word)
Lookup(word) ==
  /\ phase = "idle"
  /\ result' = lookup(entries, word)
  /\ call' = Call("lookup", word, FALSE, "ok")
  /\ UNCHANGED <<entries, store, analysis_vars>>

LexNext ==
  \/ \E readable \in BOOLEAN : Construct(readable)
  \/ \E word \in LexWords : \E a \in SenseArgs : AddSense(word, a)
  \/ \E word \in LexWords : \E persist \in BOOLEAN : \E io \in IOOutcomes :
       AddGenericSense(word, persist, io)
  \/ \E word \in LookupWords : Lookup(word)
  \/ \E s \in LexSentences : Analyze(s)
  \/ Return

LexSpec == LexInit /\ [][LexNext]_vars

Next ==
  \/ \E s \in Sentences : Analyze(s)
  \/ AnalyzeAgain
  \/ \E k \in DOMAIN interpretations : SelectWordSenses(k)
  \/ Return

Spec == Init /\ [][Next]_vars

\* ------------------------------------------------------------------------
\* Properties
\* ------------------------------------------------------------------------

\* The words of the scenario sentences the properties name
w_pitcher == <<"p", "i", "t", "c", "h", "e", "r">>
w_struck == <<"s", "t", "r", "u", "c", "k">>
w_batter == <<"b", "a", "t", "t", "e", "r">>
w_men == <<"m", "e", "n">>
w_old == <<"o", "l", "d">>

\* Every node of an interpretation tree
RECURSIVE nodes(_)
nodes(structure) ==
  {structure}
    \cup (IF structure.left # <<>> THEN nodes(structure.left[1]) ELSE {})
    \cup (IF structure.right # <<>> THEN nodes(structure.right[1]) ELSE {})

\* Some token of the sentence has, among its surface-form reductions, a word
\* that was given a generic sense by the calls on this sentence
GenericIsReduction ==
  \E p \in DOMAIN sentence_classes :
    \E g \in generic_added : g \in Range(tried(sentence_classes[p].word))

\* The positions of the tokens that were absent from the lexicon, after all
\* reductions, when this call looked them up
UnknownPositions ==
  {p \in DOMAIN sentence_classes : sentence_classes[p].word \in generic_added}

\* The complex triples of every pipeline stage of the last call
StageTriples ==
  Range(complex_triples) \cup Range(filtered_triples) \cup Range(final_triples)

\* C1 (as stated): analyze called twice in succession on the same sentence
\* returns the same interpretation sequence both times, for every sentence,
\* out-of-vocabulary tokens included.
C1_Idempotent ==
  phase = "reanalyzed" => previous = <<interpretations>>

\* C1 (amended): analyze called twice in succession on the same sentence
\* returns the same interpretation sequence both times, provided no word that
\* received the generic fallback sense is a surface-form reduction of a token
\* of the sentence.
C1_IdempotentUnlessGenericReduction ==
  (phase = "reanalyzed" /\ ~GenericIsReduction) => previous = <<interpretations>>

\* A repeated analysis of a sentence with an unknown token, which returned the
\* same non-empty interpretations twice
C1_Witness ==
  /\ phase = "reanalyzed"
  /\ generic_added # {}
  /\ ~GenericIsReduction
  /\ interpretations # <<>>
  /\ previous = <<interpretations>>

\* C2: on the seed lexicon, scenario A ("the angry pitcher struck the careless
\* batter") has exactly one interpretation, whose root is (PERSON HIT PERSON)
\* at positions (3, 4, 7) = (pitcher, struck, batter).
C2_ScenarioARoot ==
  (phase = "analyzed" /\ sentence = ScenarioA /\ entries = SeedLexicon) =>
    /\ Len(interpretations) = 1
    /\ interpretations[1].sef = SEF("PERSON", "HIT", "PERSON")
    /\ interpretations[1].positions = <<3, 4, 7>>
    /\ interpretations[1].words = <<w_pitcher, w_struck, w_batter>>

\* Scenario A analysed on the seed lexicon, with a result
C2_Witness ==
  /\ phase = "analyzed"
  /\ sentence = ScenarioA
  /\ entries = SeedLexicon
  /\ interpretations # <<>>
  /\ Len(final_triples) > 1

\* C3: select_word_senses on the interpretation of scenario A resolves
\* 'struck' (position 4) to its HIT sense, number 3, and 'pitcher'
\* (position 3) to its PERSON sense, number 1.
C3_ScenarioASenses ==
  (phase = "selected" /\ sentence = ScenarioA /\ entries = SeedLexicon) =>
    /\ sense_map[4].sense_num = 3
    /\ "HIT" \in Range(sense_map[4].semantic_classes)
    /\ sense_map[3].sense_num = 1
    /\ "PERSON" \in Range(sense_map[3].semantic_classes)

\* C4: on the seed lexicon, scenario C ("old men eat fish") has an
\* interpretation whose root is (PERSON CONSUME ANIMAL) or (PERSON CONSUME
\* FOOD) and which holds, below the root, a (PERSON MOD AGE) node binding
\* 'men' (left, position 2) and 'old' (right, position 1).
C4_ScenarioCModifier ==
  (phase = "analyzed" /\ sentence = ScenarioC /\ entries = SeedLexicon) =>
    \E k \in DOMAIN interpretations :
      /\ interpretations[k].sef \in {SEF("PERSON", "CONSUME", "ANIMAL"),
                                     SEF("PERSON", "CONSUME", "FOOD")}
      /\ \E child \in nodes(interpretations[k]) \ {interpretations[k]} :
           /\ child.sef = SEF("PERSON", "MOD", "AGE")
           /\ child.positions[1] = 2
           /\ child.positions[3] = 1
           /\ child.words[1] = w_men
           /\ child.words[3] = w_old

\* C5: on the seed lexicon, scenario B ("time flies like arrows") has more
\* than one interpretation.
C5_ScenarioBAmbiguous ==
  (phase = "analyzed" /\ sentence = ScenarioB /\ entries = SeedLexicon) =>
    Len(interpretations) > 1

\* Scenario B analysed on the seed lexicon, with both a MOVE and a SIMILAR
\* reading among the final triples
C5_Witness ==
  /\ phase = "analyzed"
  /\ sentence = ScenarioB
  /\ entries = SeedLexicon
  /\ \E ct \in Range(final_triples) : ct.sef.relation = "MOVE"
  /\ \E ct \in Range(final_triples) : ct.sef.relation = "SIMILAR"

\* The senses and classes analyze gives a token that was absent from the
\* lexicon: one generic sense, syntactic class N, semantic class OBJECT
HasGenericSense(p) ==
  /\ Len(sentence_classes[p].senses) = 1
  /\ sentence_classes[p].senses[1].syntactic_class = "N"
  /\ sentence_classes[p].senses[1].semantic_classes = <<"OBJECT">>
  /\ sentence_classes[p].classes = {"N", "OBJECT"}

\* C6 (as stated): a token absent from the lexicon gets the generic N/OBJECT
\* sense and, in every complex triple of every stage that binds it as left or
\* right filler, the tag it fills is the syntactic tag N.
C6_UnknownFillsOnlyN ==
  phase = "analyzed" =>
    \A p \in UnknownPositions :
      /\ HasGenericSense(p)
      /\ \A ct \in StageTriples :
           /\ ct.positions[1] = p => ct.sef.left = "N"
           /\ ct.positions[3] = p => ct.sef.right = "N"

\* C6 (amended): a token absent from the lexicon gets the generic N/OBJECT
\* sense and, in every complex triple of every stage that binds it as left or
\* right filler, the tag it fills is N or OBJECT, the two classes of the
\* generic sense; it fills no other semantic tag.
C6_UnknownFillsNOrObject ==
  phase = "analyzed" =>
    \A p \in UnknownPositions :
      /\ HasGenericSense(p)
      /\ \A ct \in StageTriples :
           /\ ct.positions[1] = p => ct.sef.left \in {"N", "OBJECT"}
           /\ ct.positions[3] = p => ct.sef.right \in {"N", "OBJECT"}

\* An unknown token bound by a final triple as the OBJECT of a semantic SEF,
\* and by another as an N
C6_Witness ==
  /\ phase = "analyzed"
  /\ \E p \in UnknownPositions :
       /\ \E ct \in Range(final_triples) :
            ct.positions[3] = p /\ ct.sef.right = "OBJECT"
       /\ \E ct \in StageTriples :
            (ct.positions[1] = p /\ ct.sef.left = "N")
              \/ (ct.positions[3] = p /\ ct.sef.right = "N")

\* C7: after direct lookup, reductions and the generic fallback, the class
\* table has an entry for every position 1..n of the cleaned tokens, with at
\* least one sense and a non-empty class set.
C7_FallbackTotality ==
  phase # "idle" =>
    /\ Len(sentence_classes) = Len(clean_tokens(sentence))
    /\ \A p \in DOMAIN sentence_classes :
         /\ sentence_classes[p].word = clean_tokens(sentence)[p]
         /\ sentence_classes[p].senses # <<>>
         /\ sentence_classes[p].classes # {}

\* A class table holding a token that fell back to the generic sense and a
\* token that took the senses of a reduction
C7_Witness ==
  /\ phase = "analyzed"
  /\ UnknownPositions # {}
  /\ \E p \in DOMAIN sentence_classes :
       /\ sentence_classes[p].senses # <<>>
       /\ sentence_classes[p].senses[1].word # sentence_classes[p].word

\* C8: every triple filter_by_order retains whose relation is one of V, HIT,
\* CONSUME, BE, EQUIV, MOVE and whose left tag is one of N, PERSON, ANIMAL,
\* OBJECT has leftPos < relPos < rightPos when relPos # 0, and
\* leftPos < rightPos when relPos = 0.
C8_VerbOrder ==
  \A ct \in Range(filtered_triples) :
    (/\ ct.sef.relation \in {"V", "HIT", "CONSUME", "BE", "EQUIV", "MOVE"}
     /\ ct.sef.left \in {"N", "PERSON", "ANIMAL", "OBJECT"}) =>
      IF ct.positions[2] # 0
      THEN ct.positions[1] < ct.positions[2] /\ ct.positions[2] < ct.positions[3]
      ELSE ct.positions[1] < ct.positions[3]

\* C9: every MOD triple filter_by_order retains whose right tag is one of ADJ,
\* ART, EMOTION, ATTITUDE, AGE has rightPos < leftPos.
C9_ModifierOrder ==
  \A ct \in Range(filtered_triples) :
    (/\ ct.sef.relation = "MOD"
     /\ ct.sef.right \in {"ADJ", "ART", "EMOTION", "ATTITUDE", "AGE"}) =>
      ct.positions[3] < ct.positions[1]

\* The order filter kept a modifier triple and dropped one whose modifier
\* follows the modified word
C9_Witness ==
  /\ \E ct \in Range(filtered_triples) :
       /\ ct.sef.relation = "MOD"
       /\ ct.sef.right \in {"ADJ", "ART", "EMOTION", "ATTITUDE", "AGE"}
  /\ \E ct \in Range(complex_triples) \ Range(filtered_triples) :
       /\ ct.sef.relation = "MOD"
       /\ ct.sef.right \in {"ADJ", "ART", "EMOTION", "ATTITUDE", "AGE"}
       /\ ct.positions[1] < ct.positions[3]

\* C10: of two triples given to eliminate_abstract_duplicates with the same
\* positions, one retained and one discarded, the retained one has an
\* abstraction score no higher than the discarded one.
C10_Specificity ==
  \A kept \in Range(final_triples) :
    \A dropped \in Range(filtered_triples) \ Range(final_triples) :
      dropped.positions = kept.positions =>
        abstraction_level(kept.sef) <= abstraction_level(dropped.sef)

\* A more abstract triple was discarded for a more specific one at the same
\* positions
C10_Witness ==
  \E kept \in Range(final_triples) :
    \E dropped \in Range(filtered_triples) \ Range(final_triples) :
      /\ dropped.positions = kept.positions
      /\ abstraction_level(kept.sef) < abstraction_level(dropped.sef)

\* ------------------------------------------------------------------------
\* Lexicon invariants
\* ------------------------------------------------------------------------

\* No two senses of one word carry the same sense_num
UniqueSenseNumbers(ent) ==
  \A w \in DOMAIN ent :
    \A j, k \in DOMAIN ent[w] :
      j # k => ent[w][j].sense_num # ent[w][k].sense_num

\* C11: in the seed lexicon and in every lexicon reached from it through
\* add_generic_sense calls (those of analyze included), no word has two
\* senses with the same sense number.
C11_SenseNumbersUnique == UniqueSenseNumbers(entries)

\* ------------------------------------------------------------------------
\* Empty results
\* ------------------------------------------------------------------------

\* C12: analyze returns no interpretation if and only if no triple is left
\* after relevance, candidate generation, the order filter and the
\* abstraction dedup; one final triple is enough for an interpretation.
C12_EmptyIffNoFinalTriples ==
  phase \in {"analyzed", "reanalyzed", "selected"} =>
    ((interpretations = <<>>) <=> (final_triples = <<>>))

\* An analysis whose final triples hold no verb-like relation, and which
\* still returned an interpretation
C12_Witness ==
  /\ phase = "analyzed"
  /\ final_triples # <<>>
  /\ \A k \in DOMAIN final_triples :
       final_triples[k].sef.relation \notin verb_relations
  /\ interpretations # <<>>

\* ------------------------------------------------------------------------
\* Lexicon operations
\* ------------------------------------------------------------------------

\* a is an initial segment of b
IsPrefix(a, b) == Len(a) <= Len(b) /\ SubSeq(b, 1, Len(a)) = a

\* C13: over add_sense, add_generic_sense, lookup and analyze calls on one
\* Lexicon object, every word keeps its senses as an initial segment of its
\* later senses (nothing is removed, reordered or replaced), and add_sense
\* never deduplicates: each call makes the word's sense list one longer.
C13_AppendOnly ==
  [][/\ call'.op # "__init__" =>
          \A w \in DOMAIN entries :
            w \in DOMAIN entries' /\ IsPrefix(entries[w], entries'[w])
     /\ call'.op = "add_sense" =>
          Len(lookup(entries', call'.word))
            = Len(lookup(entries, call'.word)) + 1]_vars

\* add_sense has just added a sense identical to one the word already had
C13_Witness ==
  /\ call.op = "add_sense"
  /\ LET senses == lookup(entries, call.word)
     IN  \E j \in DOMAIN senses : j < Len(senses) /\ senses[j] = senses[Len(senses)]

\* C14: add_generic_sense(word) appends exactly one sense, of syntactic
\* class N, semantic classes [OBJECT] and sense number (senses the word had
\* before) + 1, under the lower-cased word; it returns that word's whole,
\* non-empty sense list, and no other word's senses change.
C14_AddGenericSense ==
  [][call'.op = "add_generic_sense" =>
       LET w == lower(call'.word)
           before == IF w \in DOMAIN entries THEN entries[w] ELSE <<>>
       IN  /\ DOMAIN entries' = DOMAIN entries \cup {w}
           /\ entries'[w] =
                Append(before, WordSense(w, Len(before) + 1, "N", <<>>, <<"OBJECT">>))
           /\ \A v \in DOMAIN entries \ {w} : entries'[v] = entries[v]
           /\ result' = entries'[w]
           /\ result' # <<>>]_vars

\* add_generic_sense was called with a capitalised word that already had
\* senses whose numbers are not their positions
C14_Witness ==
  /\ call.op = "add_generic_sense"
  /\ call.word # lower(call.word)
  /\ Len(result) >= 2
  /\ result[Len(result) - 1].sense_num # Len(result) - 1

\* C15: lookup(word) returns the senses stored under the lower-cased word,
\* in their stored order, and the empty sequence when there are none; it
\* leaves the mapping as it was, creating no entry for an absent word.
C15_Lookup ==
  [][call'.op = "lookup" =>
       LET w == lower(call'.word)
       IN  /\ result' = IF w \in DOMAIN entries THEN entries[w] ELSE <<>>
           /\ entries' = entries
           /\ (w \notin DOMAIN entries => w \notin DOMAIN entries')]_vars

\* lookup of a capitalised word returned the senses of its lower-case form
C15_Witness ==
  /\ call.op = "lookup"
  /\ call.word # lower(call.word)
  /\ call.word \notin DOMAIN entries
  /\ result # <<>>

\* ------------------------------------------------------------------------
\* Persistence
\* ------------------------------------------------------------------------

\* The store cannot be read as a word -> list of JSON objects mapping
Corrupt(s) ==
  \/ s.kind = "garbage"
  \/ /\ s.kind = "data"
     /\ \E k \in DOMAIN s.data : \E j \in DOMAIN s.data[k].senses :
          ~s.data[k].senses[j].is_dict

\* The generic sense is the last of the senses the call returned, which are
\* the senses the lexicon now has for the word
GenericAppended ==
  /\ result # <<>>
  /\ result = lookup(entries, call.word)
  /\ result[Len(result)] =
       WordSense(lower(call.word), Len(result), "N", <<>>, <<"OBJECT">>)

\* The file operations of the last add_generic_sense(word, persist=True)
\* did not all succeed
SaveFailed ==
  /\ call.op = "add_generic_sense"
  /\ call.persist
  /\ call.io # "ok" \/ store.kind = "garbage"

\* Number of senses in the whole mapping
total_senses(ent) ==
  Cardinality(UNION {{<<w, k>> : k \in DOMAIN ent[w]} : w \in DOMAIN ent})

\* Number of items of the store in front of its first item that is no JSON
\* object (all of them when there is none)
items_before_malformed(s) ==
  LET pairs == store_pairs(s.data)
      bad == {k \in DOMAIN pairs : ~pairs[k].item.is_dict}
  IN  IF bad = {} THEN Len(pairs)
      ELSE (CHOOSE k \in bad : \A j \in bad : k <= j) - 1

\* C16 as stated: a failing read or write of the custom store is swallowed:
\* add_generic_sense(word, persist=True) still appends the generic sense in
\* memory and returns it, and a Lexicon constructed with an absent or
\* corrupt store holds exactly the seed vocabulary.
C16_PersistenceFailuresSwallowed ==
  /\ SaveFailed => GenericAppended
  /\ (call.op = "__init__" /\ (store.kind = "absent" \/ Corrupt(store))) =>
       entries = SeedLexicon

\* C16 as amended: a failing read or write of the custom store is swallowed:
\* add_generic_sense(word, persist=True) still appends the generic sense in
\* memory and returns it; a Lexicon constructed with an absent, unreadable
\* or unparsable store holds exactly the seed vocabulary, and one
\* constructed with a store that parses holds the seed vocabulary followed
\* by one sense for each item in front of the first malformed item.
C16_FailuresSwallowedPartialLoad ==
  /\ SaveFailed => GenericAppended
  /\ call.op = "__init__" =>
       /\ (store.kind \in {"absent", "garbage"} \/ call.io = "read_error") =>
            entries = SeedLexicon
       /\ \A w \in DOMAIN SeedLexicon :
            w \in DOMAIN entries /\ IsPrefix(SeedLexicon[w], entries[w])
       /\ (store.kind = "data" /\ call.io = "ok") =>
            total_senses(entries)
              = total_senses(SeedLexicon) + items_before_malformed(store)

\* A Lexicon was constructed from a store whose second word holds a
\* malformed item, and has the first word's sense next to the seed
C16_Witness ==
  /\ call.op = "__init__"
  /\ call.io = "ok"
  /\ store.kind = "data"
  /\ Corrupt(store)
  /\ entries # SeedLexicon

\* ------------------------------------------------------------------------
\* Seed vocabulary
\* ------------------------------------------------------------------------

w_strike == <<"s", "t", "r", "i", "k", "e">>

\* C17: in a Lexicon built from the seed vocabulary with no custom store,
\* "pitcher" has exactly 2 senses, one with PERSON and one with CONTAINER,
\* and "strike" and "struck" have exactly 3 senses each.
C17_SeedSenseCounts ==
  (call.op = "__init__" /\ store.kind = "absent") =>
    LET pitcher == lookup(entries, w_pitcher)
    IN  /\ Len(pitcher) = 2
        /\ Cardinality({k \in DOMAIN pitcher :
                          "PERSON" \in Range(pitcher[k].semantic_classes)}) = 1
        /\ Cardinality({k \in DOMAIN pitcher :
                          "CONTAINER" \in Range(pitcher[k].semantic_classes)}) = 1
        /\ Len(lookup(entries, w_strike)) = 3
        /\ Len(lookup(entries, w_struck)) = 3

\* A Lexicon just constructed where there is no custom store
C17_Witness ==
  /\ call.op = "__init__"
  /\ store.kind = "absent"
  /\ lookup(entries, w_pitcher) # <<>>
  /\ lookup(entries, w_strike) # <<>>
  /\ lookup(entries, w_struck) # <<>>

\* ------------------------------------------------------------------------
\* Structure assembly
\* ------------------------------------------------------------------------

\* The final MOD triples that modify the element at position target and
\* whose own right position is not among the positions seen
qualifying_modifiers(target, seen) ==
  LET Qualifies(ct) == /\ ct.sef.relation = "MOD"
                       /\ ct.positions[1] = target
                       /\ ct.positions[3] \notin seen
  IN  SelectSeq(final_triples, Qualifies)

\* child is <<c>> with c built from the least abstract of mods (the first
\* of them on ties)
AttachedFrom(child, mods) ==
  /\ child # <<>>
  /\ child[1].sef = least_abstract(mods).sef
  /\ child[1].positions = least_abstract(mods).positions

\* C18: a node built from a triple gets, on each side, a child whenever a
\* final MOD triple has that side's argument position as its left position
\* and a right position not seen on the path, the child being built from
\* the least abstract such triple (stated for the root of each
\* interpretation, whose path holds its own positions only); in scenario A
\* the root so gets the MOD nodes of "angry" and "careless".
C18_ModifiersAttached ==
  phase = "analyzed" =>
    /\ \A i \in DOMAIN interpretations :
         LET n == interpretations[i]
             seen == {p \in Range(n.positions) : p > 0}
             lefts == qualifying_modifiers(n.positions[1], seen)
             rights == qualifying_modifiers(n.positions[3], seen)
         IN  /\ lefts # <<>> => AttachedFrom(n.left, lefts)
             /\ rights # <<>> => AttachedFrom(n.right, rights)
    /\ (sentence = ScenarioA /\ entries = SeedLexicon) =>
         \E i \in DOMAIN interpretations :
           /\ interpretations[i].left # <<>>
           /\ interpretations[i].left[1].sef.relation = "MOD"
           /\ interpretations[i].left[1].positions[3] = 2
           /\ interpretations[i].right # <<>>
           /\ interpretations[i].right[1].sef.relation = "MOD"
           /\ interpretations[i].right[1].positions[3] = 6

\* ------------------------------------------------------------------------
\* Order filter
\* ------------------------------------------------------------------------

\* Number of occurrences of x in seq
occurrences(seq, x) == Cardinality({k \in DOMAIN seq : seq[k] = x})

\* C19: filter_by_order is a plain filter: every triple occurs in its output
\* at most as often as in its input (a retained triple is emitted once, not
\* once per rule block), and nothing else occurs in it.
C19_FilterIsSubsequence ==
  phase = "analyzed" =>
    \A ct \in Range(filtered_triples) :
      /\ ct \in Range(complex_triples)
      /\ occurrences(filtered_triples, ct) <= occurrences(complex_triples, ct)

\* C20: every (N MOD N) triple retained by filter_by_order has adjacent
\* argument positions.
C20_NounNounAdjacent ==
  phase = "analyzed" =>
    \A ct \in Range(filtered_triples) :
      ct.sef = SEF("N", "MOD", "N") =>
        \/ ct.positions[1] - ct.positions[3] = 1
        \/ ct.positions[3] - ct.positions[1] = 1

\* C21: every triple retained by filter_by_order whose relation is PREP,
\* LOC or PART has its left position in front of its right position.
C21_PrepositionalOrder ==
  phase = "analyzed" =>
    \A ct \in Range(filtered_triples) :
      ct.sef.relation \in {"PREP", "LOC", "PART"} =>
        ct.positions[1] < ct.positions[3]

\* ------------------------------------------------------------------------
\* Abstraction dedup
\* ------------------------------------------------------------------------

\* The least abstraction score among the filtered triples at positions pos
group_minimum(pos) ==
  LET levels == {abstraction_level(filtered_triples[k].sef) :
                   k \in {j \in DOMAIN filtered_triples :
                            filtered_triples[j].positions = pos}}
  IN  CHOOSE a \in levels : \A b \in levels : a <= b

\* The first filtered triple at positions pos whose score is the group's least
first_of_minimum(pos) ==
  LET at == {k \in DOMAIN filtered_triples :
               /\ filtered_triples[k].positions = pos
               /\ abstraction_level(filtered_triples[k].sef) = group_minimum(pos)}
  IN  filtered_triples[CHOOSE k \in at : \A j \in at : k <= j]

\* C22 as stated: within each group of input triples with the same
\* positions, eliminate_abstract_duplicates keeps every triple whose
\* abstraction score is the group's minimum, and none with a higher score.
C22_AllTiesKept ==
  phase = "analyzed" =>
    /\ \A ct \in Range(filtered_triples) :
         abstraction_level(ct.sef) = group_minimum(ct.positions) =>
           ct \in Range(final_triples)
    /\ \A ct \in Range(final_triples) :
         /\ ct \in Range(filtered_triples)
         /\ abstraction_level(ct.sef) = group_minimum(ct.positions)

\* C22 as amended: within each group of input triples with the same
\* positions, eliminate_abstract_duplicates keeps exactly one triple, the
\* first in input order whose abstraction score is the group's minimum.
C22_FirstOfMinimumKept ==
  phase = "analyzed" =>
    /\ \A ct \in Range(filtered_triples) :
         Cardinality({k \in DOMAIN final_triples :
                        final_triples[k].positions = ct.positions}) = 1
    /\ \A ct \in Range(final_triples) :
         /\ ct \in Range(filtered_triples)
         /\ ct = first_of_minimum(ct.positions)

\* Two different triples at the same positions tie at the group's minimum
\* score, and only the first is kept
C22_Witness ==
  /\ phase = "analyzed"
  /\ \E kept \in Range(final_triples) :
       \E dropped \in Range(filtered_triples) \ Range(final_triples) :
         /\ dropped.positions = kept.positions
         /\ abstraction_level(dropped.sef) = abstraction_level(kept.sef)

\* ------------------------------------------------------------------------
\* Root selection
\* ------------------------------------------------------------------------

\* The final triples with a verb-like relation, in order
verb_like_finals ==
  LET VerbLike(ct) == ct.sef.relation \in verb_relations
  IN  SelectSeq(final_triples, VerbLike)

\* The greatest match score among the verb-like final triples
maximum_score ==
  LET scores == {root_score(verb_like_finals[k], sentence_classes) :
                   k \in DOMAIN verb_like_finals}
  IN  CHOOSE s \in scores : \A t \in scores : t <= s

\* The roots the claim describes, in the order of the final triples
expected_roots ==
  IF verb_like_finals = <<>> THEN <<final_triples[1]>>
  ELSE IF maximum_score = 0 THEN verb_like_finals
  ELSE LET Top(ct) == root_score(ct, sentence_classes) = maximum_score
           top == SelectSeq(verb_like_finals, Top)
           Least(ct) == \A k \in DOMAIN top :
                          abstraction_level(ct.sef) <= abstraction_level(top[k].sef)
       IN  SelectSeq(top, Least)

\* C23: with a verb-like final triple, the roots are the verb-like triples
\* of maximal match score and, among those, of minimal abstraction score
\* (all verb-like triples when the maximal score is 0); with none, the only
\* root is the first final triple.  analyze returns one interpretation per
\* root, in root order, whether or not the tree covers every word.
C23_RootSelection ==
  (phase = "analyzed" /\ final_triples # <<>>) =>
    /\ Len(interpretations) = Len(expected_roots)
    /\ \A k \in DOMAIN interpretations :
         /\ interpretations[k].sef = expected_roots[k].sef
         /\ interpretations[k].positions = expected_roots[k].positions
         /\ interpretations[k].words = expected_roots[k].words

\* Verb-like triples of the same maximal score differ in abstraction score,
\* and the more abstract one is no root
C23_Witness ==
  /\ phase = "analyzed"
  /\ final_triples # <<>>
  /\ verb_like_finals # <<>>
  /\ maximum_score > 0
  /\ \E k \in DOMAIN verb_like_finals :
       /\ root_score(verb_like_finals[k], sentence_classes) = maximum_score
       /\ \A i \in DOMAIN interpretations :
            interpretations[i].sef # verb_like_finals[k].sef
              \/ interpretations[i].positions # verb_like_finals[k].positions

\* The word positions whose class set contains the SEF's left or right tag
matched_positions(sef) ==
  {p \in DOMAIN sentence_classes :
     sef.left \in sentence_classes[p].classes
       \/ sef.right \in sentence_classes[p].classes}

\* The catalog SEFs matched by at least two word positions, in catalog order
majority_sefs ==
  LET Twice(sef) == Cardinality(matched_positions(sef)) >= 2
  IN  SelectSeq(CatalogSefs, Twice)

\* The catalog SEFs matched by some word position, in catalog order
present_sefs ==
  LET Once(sef) == matched_positions(sef) # {}
  IN  SelectSeq(CatalogSefs, Once)

\* C24: get_relevant_sefs returns, in catalog order, exactly the catalog SEFs
\* whose left or right tag is in the class set of at least two word
\* positions; when there is none, exactly the SEFs whose left or right tag is
\* in the class set of some position.  Every returned SEF is a catalog member
\* with its left or right tag present in the sentence.
C24_RelevantSefs ==
  (phase \in {"analyzed", "reanalyzed"}) =>
    /\ relevant_sefs = (IF majority_sefs # <<>> THEN majority_sefs ELSE present_sefs)
    /\ \A k \in DOMAIN relevant_sefs :
         /\ relevant_sefs[k] \in Range(CatalogSefs)
         /\ matched_positions(relevant_sefs[k]) # {}

\* The majority filter dropped some SEF whose tag is present in the sentence
C24_Witness ==
  /\ phase = "analyzed"
  /\ relevant_sefs # <<>>
  /\ majority_sefs # <<>>
  /\ Len(relevant_sefs) < Len(present_sefs)

\* The positions that can fill the SEF's relation: their class set contains
\* the relation tag, or their word is the tag without regard to case
relation_fillers(sef) ==
  {p \in DOMAIN sentence_classes :
     \/ sef.relation \in sentence_classes[p].classes
     \/ lower(sentence_classes[p].word) = lower(tag_chars(sef.relation))}

\* The relation fillers strictly between two argument positions
fillers_between(sef, a, b) ==
  {p \in relation_fillers(sef) : (a < p /\ p < b) \/ (b < p /\ p < a)}

\* C25: create_complex_triples emits, for each relevant SEF, exactly one
\* triple per ordered pair of distinct positions whose class sets contain the
\* left and the right tag; the relation position is 0, with the relation tag
\* as the word, when the relation is MOD or no relation filler lies strictly
\* between the arguments, and else the lowest relation filler strictly
\* between them.
C25_ComplexTriples ==
  (phase \in {"analyzed", "reanalyzed"}) =>
    /\ \A i \in DOMAIN complex_triples :
         complex_triples[i].sef \in Range(relevant_sefs)
    /\ \A k \in DOMAIN relevant_sefs :
         \A l, r \in DOMAIN sentence_classes :
           Cardinality({i \in DOMAIN complex_triples :
                          /\ complex_triples[i].sef = relevant_sefs[k]
                          /\ complex_triples[i].positions[1] = l
                          /\ complex_triples[i].positions[3] = r})
             = (IF /\ l # r
                   /\ relevant_sefs[k].left \in sentence_classes[l].classes
                   /\ relevant_sefs[k].right \in sentence_classes[r].classes
                THEN 1 ELSE 0)
    /\ \A i \in DOMAIN complex_triples :
         LET ct == complex_triples[i]
             between == fillers_between(ct.sef, ct.positions[1], ct.positions[3])
         IN  IF ct.sef.relation = "MOD" \/ between = {}
             THEN /\ ct.positions[2] = 0
                  /\ ct.words[2] = tag_chars(ct.sef.relation)
             ELSE /\ ct.positions[2] \in between
                  /\ \A p \in between : ct.positions[2] <= p

\* A triple left with an implicit relation although the sentence has a filler
\* of its relation, outside the two arguments, next to a triple whose
\* relation is filled from between its arguments
C25_Witness ==
  /\ phase = "analyzed"
  /\ \E i \in DOMAIN complex_triples :
       /\ complex_triples[i].sef.relation # "MOD"
       /\ relation_fillers(complex_triples[i].sef) # {}
       /\ complex_triples[i].positions[2] = 0
  /\ \E i \in DOMAIN complex_triples : complex_triples[i].positions[2] # 0

\* The (sef, positions) pairs of the tree whose senses were selected
selected_pairs == collect_sefs(interpretations[CHOOSE k \in DOMAIN interpretations :
                                 sense_interp[1].sef = interpretations[k].sef
                                   /\ sense_interp[1].positions = interpretations[k].positions])

\* The number of the tree's pairs in which the sense matches the SEF on the
\* side the position fills
side_matches(sense, pos) ==
  Cardinality({k \in DOMAIN selected_pairs :
     \/ /\ selected_pairs[k].positions[1] = pos
        /\ selected_pairs[k].sef.left \in
             {sense.syntactic_class} \cup Range(sense.semantic_classes)
     \/ /\ selected_pairs[k].positions[3] = pos
        /\ selected_pairs[k].sef.right \in
             {sense.syntactic_class} \cup Range(sense.semantic_classes)})

lexicon_before(p) ==
  LET earlier == {sentence_classes'[q].word : q \in 1..(p - 1)}
                   \cap (DOMAIN entries' \ DOMAIN entries)
  IN  [w \in DOMAIN entries \cup earlier |-> entries'[w]]

\* The reductions of a word, in the order tried, whose lookup in ent is not
\* empty
found_reductions(ent, word) ==
  LET Found(cand) == cand # <<>> /\ lower(cand) \in DOMAIN ent
  IN  SelectSeq(tried(word), Found)

\* Neither the token at position p nor any of its reductions is in the
\* lexicon when the step reaches it
unknown_at(p) ==
  LET word == sentence_classes'[p].word
  IN  /\ word \notin DOMAIN lexicon_before(p)
      /\ found_reductions(lexicon_before(p), word) = <<>>

\* C27: for each token analyze uses the direct lookup if it is not empty,
\* otherwise the senses of the first surface-form reduction, in the order
\* 's, s, es, ed, ing, ly, whose lookup is not empty, and only when all are
\* empty adds exactly one generic N/OBJECT sense under the token itself; in
\* the first two cases the lexicon is left unchanged, and analyze never
\* writes the custom-lexicon store.
C27_LexiconSideEffects ==
  [][(phase' \in {"analyzed", "reanalyzed"} /\ phase' # phase) =>
       /\ store' = store
       /\ \A w \in DOMAIN entries : w \in DOMAIN entries' /\ entries'[w] = entries[w]
       /\ DOMAIN entries' \ DOMAIN entries
            = {sentence_classes'[p].word : p \in {q \in DOMAIN sentence_classes' : unknown_at(q)}}
       /\ \A w \in DOMAIN entries' \ DOMAIN entries :
            /\ Len(entries'[w]) = 1
            /\ entries'[w][1].word = w
            /\ entries'[w][1].syntactic_class = "N"
            /\ entries'[w][1].semantic_classes = <<"OBJECT">>
       /\ \A p \in DOMAIN sentence_classes' :
            LET word == sentence_classes'[p].word
                ent == lexicon_before(p)
                reductions == found_reductions(ent, word)
            IN  sentence_classes'[p].senses
                  = (IF word \in DOMAIN ent THEN ent[word]
                     ELSE IF reductions # <<>> THEN ent[lower(reductions[1])]
                     ELSE entries'[word])
    ]_vars

\* An analysis of a sentence with a known token, a token known through a
\* reduction and a token that received the generic sense
C27_Witness ==
  /\ phase = "analyzed"
  /\ generic_added # {}
  /\ \E p \in DOMAIN sentence_classes :
       /\ sentence_classes[p].word \notin DOMAIN entries
       /\ sentence_classes[p].senses # <<>>
  /\ \E p \in DOMAIN sentence_classes :
       /\ sentence_classes[p].word \in DOMAIN entries \ generic_added
  /\ \E p \in DOMAIN sentence_classes :
       /\ sentence_classes[p].word \in generic_added
       /\ Len(sentence_classes[p].senses) = 1
       /\ sentence_classes[p].senses[1].syntactic_class = "N"

\* What analyze returns for sentence s on a newly constructed analyzer
fresh_interpretations(s) ==
  LET step1 == lookup_words(SeedLexicon, clean_tokens(s), <<>>)
      relevant == get_relevant_sefs([k \in DOMAIN step1.sentence_classes |->
                                       step1.sentence_classes[k].classes])
      triples == create_complex_triples(relevant, step1.sentence_classes)
      final == eliminate_abstract_duplicates(filter_by_order(triples))
  IN  generate_structures(final, step1.sentence_classes)

\* The classes a word gets as the only token of the first sentence of a
\* newly constructed analyzer
fresh_classes(word) == classes_of(senses_of_word(SeedLexicon, word).senses)

\* The words that received a generic sense since construction
generic_words == DOMAIN entries \ DOMAIN SeedLexicon

\* Some token of the sentence has, among its surface-form reductions, a word
\* that received a generic sense since construction
GenericWordIsReduction ==
  \E p \in DOMAIN sentence_classes :
    \E g \in generic_words : g \in Range(tried(sentence_classes[p].word))

\* C28 (as stated): the interpretation sequence analyze returns for a
\* sentence is the same whatever sentences were analyzed before on the same
\* analyzer, and the class set of a token does not depend on the tokens that
\* precede it: generic senses added for earlier unknown tokens never change
\* the classes a later token receives.
C28_HistoryIndependent ==
  (phase = "analyzed") =>
    /\ interpretations = fresh_interpretations(sentence)
    /\ \A p \in DOMAIN sentence_classes :
         sentence_classes[p].classes = fresh_classes(sentence_classes[p].word)

\* C28 (amended): the interpretation sequence and the class set of every
\* token are those of a newly constructed analyzer, provided no word that
\* received a generic sense, in this call or an earlier one, is a
\* surface-form reduction of a token of the sentence.
C28_HistoryIndependentUnlessGenericReduction ==
  (phase = "analyzed" /\ ~GenericWordIsReduction) =>
    /\ interpretations = fresh_interpretations(sentence)
    /\ \A p \in DOMAIN sentence_classes :
         sentence_classes[p].classes = fresh_classes(sentence_classes[p].word)

\* A sentence analysed, with a result, after an earlier sentence left a
\* generic sense for a word that is neither a token of this sentence nor a
\* reduction of one
C28_Witness ==
  /\ phase = "analyzed"
  /\ ~GenericWordIsReduction
  /\ interpretations # <<>>
  /\ \E g \in generic_words :
       \A p \in DOMAIN sentence_classes : sentence_classes[p].word # g

\* The relations of the subject-verb-object rule of the first rule block
verb_family == {"V", "HIT", "CONSUME", "BE", "EQUIV"}

\* The left tags the second rule block names for its verb rule
nominal_left_tags == {"N", "PERSON", "ANIMAL", "OBJECT"}

\* C29: every triple filter_by_order retains whose relation is V, HIT,
\* CONSUME, BE or EQUIV has its left position before its right position and
\* its relation position either 0 or strictly between them, whatever its
\* left tag; every retained SIMILAR triple has an explicit relation position
\* strictly between its left and right positions.
C29_VerbFamilyOrder ==
  \A i \in DOMAIN filtered_triples :
    LET ct == filtered_triples[i]
        left_num == ct.positions[1]
        rel_num == ct.positions[2]
        right_num == ct.positions[3]
    IN  /\ ct.sef.relation \in verb_family =>
             /\ left_num < right_num
             /\ (rel_num = 0 \/ (left_num < rel_num /\ rel_num < right_num))
        /\ ct.sef.relation = "SIMILAR" =>
             /\ rel_num # 0
             /\ left_num < rel_num
             /\ rel_num < right_num

\* A verb-family triple under a left tag that is not nominal was retained
\* in subject-object order, and the same SEF in the reverse order was
\* rejected
C29_Witness ==
  /\ phase = "analyzed"
  /\ \E i \in DOMAIN filtered_triples :
       /\ filtered_triples[i].sef.relation \in verb_family
       /\ filtered_triples[i].sef.left \notin nominal_left_tags
       /\ \E j \in DOMAIN complex_triples :
            /\ complex_triples[j].sef = filtered_triples[i].sef
            /\ complex_triples[j].positions[1] > complex_triples[j].positions[3]
            /\ \A k \in DOMAIN filtered_triples :
                 filtered_triples[k] # complex_triples[j]

\* C30: input with fewer than two tokens after cleaning, empty or a single
\* word, known or unknown, yields an empty interpretation sequence, because
\* no complex triple binds two distinct positions; the call completes.
C30_FewerThanTwoTokens ==
  (phase \in {"analyzed", "reanalyzed"} /\ Len(clean_tokens(sentence)) < 2) =>
    /\ Len(sentence_classes) = Len(clean_tokens(sentence))
    /\ complex_triples = <<>>
    /\ interpretations = <<>>

\* A single known word, followed by a token of punctuation only, was
\* analysed: SEFs are relevant to it, one of them pairing two tags the word
\* has, and nothing is returned
C30_Witness ==
  /\ phase = "analyzed"
  /\ Len(sentence) = 2
  /\ Len(sentence_classes) = 1
  /\ \E k \in DOMAIN relevant_sefs :
       /\ relevant_sefs[k].left \in sentence_classes[1].classes
       /\ relevant_sefs[k].right \in sentence_classes[1].classes
  /\ interpretations = <<>>

====
